---- MODULE Spec2Model ----
(***************************************************************************)
(* Clinical-trials ingest and quality pipeline.                            *)
(*                                                                         *)
(* The module models                                                       *)
(*   - the eligibility-criteria splitting written inline in main.py        *)
(*     (insert_basic_info, search_and_extract_trials, get_trial_by_id),    *)
(*   - EnhancedDataManager.insert_trial_data (one transaction per record), *)
(*   - the /search-trials ingest (one transaction per batch),              *)
(* over a PostgreSQL store with a committed state and the uncommitted      *)
(* view of the one open write transaction.                                 *)
(*                                                                         *)
(* Python values are tagged records: None, Str(<<chars>>), Dict(function). *)
(* Text is a sequence of one-character strings, so that `in`, split,       *)
(* replace and strip are computed character by character.                  *)
(***************************************************************************)
EXTENDS Integers, Sequences, FiniteSets, Bags, TLC

VARIABLES
    criteria,   \* splitter: the record's eligibilityCriteria value
    split,      \* splitter: what the code path computed from it
    db,         \* the committed tables of the store
    work,       \* the tables as the open write transaction sees them
    pc,         \* where the running handler is ("idle": none runs)
    cur,        \* the record the handler is working on
    stmts,      \* the statements the handler runs for cur, in order
    pos,        \* statements of stmts executed so far
    extracted_trials, \* ingest: nct_ids of the trials of the batch done so far
    now,        \* wall clock, one tick per record handed to a handler
    txn_start,  \* CURRENT_TIMESTAMP of the open transaction
    err,        \* the exception that ended the handler's try block
    ret,        \* what the last finished handler returned
    date_arg,   \* date mapper: the value handed to parse_date
    parsed,     \* date mapper: what parse_date returned for it
    sample,     \* scorer: the query results of a sampled corpus
    check_results,      \* scorer: what the four category checks returned
    quality_issues,     \* DataQualityChecker.quality_issues
    quality_assessment, \* what check_data_quality_score returned
    calls,      \* methods called on the DataQualityChecker so far
    seen,       \* the committed tables each query step of the scorer ran on
    manager_connection  \* EnhancedDataManager.connection

splitVars == <<criteria, split>>

storeVars == <<db, work, pc, cur, stmts, pos, extracted_trials, now, txn_start, err, ret>>

dateVars == <<date_arg, parsed>>

qualityVars == <<sample, check_results, quality_issues, quality_assessment, calls, seen>>

\* what the handlers that write the store leave alone
nonStoreVars == <<criteria, split, dateVars, qualityVars, manager_connection>>

vars == <<criteria, split, db, work, pc, cur, stmts, pos, extracted_trials, now,
          txn_start, err, ret,
          date_arg, parsed, sample, check_results, quality_issues, quality_assessment,
          calls, seen, manager_connection>>

-----------------------------------------------------------------------------
(* Python values *)

None == [tag |-> "None"]

Str(s) == [tag |-> "str", s |-> s]

Dict(d) == [tag |-> "dict", d |-> d]

List(items) == [tag |-> "list", items |-> items]

PyInt(n) == [tag |-> "int", n |-> n]

PyBool(b) == [tag |-> "bool", b |-> b]

EmptyDict == <<>>

\* bool(v)
Truthy(v) ==
    \/ v.tag = "str" /\ Len(v.s) > 0
    \/ v.tag = "list" /\ Len(v.items) > 0
    \/ v.tag = "dict" /\ DOMAIN v.d # {}
    \/ v.tag = "int" /\ v.n # 0
    \/ v.tag = "bool" /\ v.b

\* d.get(k, default) of a dict
DictGet(d, k, default) == IF k \in DOMAIN d THEN d[k] ELSE default

-----------------------------------------------------------------------------
(* str built-ins used by the criteria splitting *)

\* the characters str.strip() removes that the modelled texts can hold
Whitespace == {" ", "\n", "\t"}

\* sub occurs in s at index i (1-based)
MatchAt(s, sub, i) ==
    /\ i + Len(sub) - 1 <= Len(s)
    /\ \A k \in 1..Len(sub) : s[i + k - 1] = sub[k]

RECURSIVE str_find(_, _, _)
\* s.find(sub, start): the lowest index >= start where sub occurs, 0 if none
str_find(s, sub, start) ==
    IF start + Len(sub) - 1 > Len(s) THEN 0
    ELSE IF MatchAt(s, sub, start) THEN start
    ELSE str_find(s, sub, start + 1)

\* sub in s
str_contains(s, sub) == str_find(s, sub, 1) # 0

RECURSIVE str_rfind(_, _, _)
\* s.rfind(sub): the highest index where sub occurs, 0 if none
str_rfind(s, sub, start) ==
    IF start < 1 THEN 0
    ELSE IF MatchAt(s, sub, start) THEN start
    ELSE str_rfind(s, sub, start - 1)

\* s.rsplit(sep, 1): split at the last occurrence
str_rsplit1(s, sep) ==
    LET i == str_rfind(s, sep, Len(s) - Len(sep) + 1)
    IN  IF i = 0 THEN <<s>>
        ELSE <<SubSeq(s, 1, i - 1), SubSeq(s, i + Len(sep), Len(s))>>

\* s.split(sep, 1): at most one split, at the first occurrence
str_split1(s, sep) ==
    LET i == str_find(s, sep, 1)
    IN  IF i = 0 THEN <<s>>
        ELSE <<SubSeq(s, 1, i - 1), SubSeq(s, i + Len(sep), Len(s))>>

RECURSIVE str_replace(_, _, _)
\* s.replace(old, new): every non-overlapping occurrence, left to right
str_replace(s, old, new) ==
    LET i == str_find(s, old, 1)
    IN  IF i = 0 THEN s
        ELSE SubSeq(s, 1, i - 1) \o new
             \o str_replace(SubSeq(s, i + Len(old), Len(s)), old, new)

RECURSIVE str_lstrip(_)
str_lstrip(s) ==
    IF s # <<>> /\ Head(s) \in Whitespace THEN str_lstrip(Tail(s)) ELSE s

RECURSIVE str_rstrip(_)
str_rstrip(s) ==
    IF s # <<>> /\ s[Len(s)] \in Whitespace
    THEN str_rstrip(SubSeq(s, 1, Len(s) - 1)) ELSE s

\* s.strip()
str_strip(s) == str_rstrip(str_lstrip(s))

-----------------------------------------------------------------------------
(* The criteria splitting *)

\* 'Exclusion Criteria'
ExclusionMarker ==
    <<"E","x","c","l","u","s","i","o","n"," ","C","r","i","t","e","r","i","a">>

\* 'Inclusion Criteria:'
InclusionLabel ==
    <<"I","n","c","l","u","s","i","o","n"," ","C","r","i","t","e","r","i","a",":">>

\* what a code path leaves in its locals: raised is TRUE when the path ended
\* in an exception (TypeError of `in` on None) before assigning anything
Raised == [raised |-> TRUE, parts |-> <<>>, inclusion |-> None, exclusion |-> None]

Splitted(parts, inc, exc) ==
    [raised |-> FALSE, parts |-> parts, inclusion |-> inc, exclusion |-> exc]

\* the slip text.rsplit('Exclusion Criteria', 1): cut at the last occurrence
MarkerSplitAtLast(text) == str_rsplit1(text, ExclusionMarker)

\* parts = text.split('Exclusion Criteria', 1)
MarkerSplit(text) == str_split1(text, ExclusionMarker)

\* parts[0].replace('Inclusion Criteria:', '')
StripLabel(left) == str_replace(left, InclusionLabel, <<>>)

\* the if / elif on full_criteria_text, shared by the three code paths
BasicTextSplitting(full_criteria_text) ==
    IF full_criteria_text.tag # "str" THEN Raised
    ELSE IF str_contains(full_criteria_text.s, ExclusionMarker)
    THEN LET parts == MarkerSplit(full_criteria_text.s)
         IN  Splitted(parts,
                      Str(str_strip(StripLabel(parts[1]))),
                      Str(str_strip(parts[2])))
    ELSE IF Truthy(full_criteria_text)
    THEN Splitted(<<>>, Str(str_strip(full_criteria_text.s)), None)
    ELSE Splitted(<<>>, None, None)

\* criteria or ''
OrEmpty(v) == IF v.tag = "None" \/ (v.tag = "str" /\ v.s = <<>>) THEN Str(<<>>) ELSE v

\* insert_basic_info: full_criteria_text is criteria itself when it is no dict
insert_basic_info_criteria(c) ==
    BasicTextSplitting(IF c.tag = "dict" THEN DictGet(c.d, "textblock", Str(<<>>))
                       ELSE c)

\* search_and_extract_trials and get_trial_by_id: criteria or ''
response_criteria(c) ==
    BasicTextSplitting(IF c.tag = "dict" THEN DictGet(c.d, "textblock", Str(<<>>))
                       ELSE OrEmpty(c))

-----------------------------------------------------------------------------
(* The store: eight tables keyed by nct_id *)

\* trial_basic_info: the columns of the INSERT other than nct_id
BasicCols ==
    {"protocol_section_id", "organization_name", "organization_type",
     "brief_title", "official_title", "status", "phase", "study_type",
     "enrollment_count", "enrollment_type", "start_date", "completion_date",
     "primary_completion_date", "is_fda_regulated_drug",
     "is_fda_regulated_device", "is_unapproved_device", "is_ppsd",
     "is_us_export"}

DescCols == {"brief_summary", "detailed_description"}

EligCols ==
    {"inclusion_criteria", "exclusion_criteria", "minimum_age", "maximum_age",
     "gender", "healthy_volunteers"}

ArmCols ==
    {"arm_group_label", "arm_group_type", "arm_group_description",
     "intervention_name", "intervention_type", "intervention_description"}

OutcomeCols ==
    {"outcome_type", "outcome_measure", "outcome_description",
     "outcome_time_frame"}

LocationCols ==
    {"facility_name", "facility_address", "facility_city", "facility_state",
     "facility_zip", "facility_country", "facility_contact_name",
     "facility_contact_phone", "facility_contact_email"}

ConditionCols == {"condition_name"}

KeywordCols == {"keyword"}

\* the tables every ON CONFLICT (nct_id) names: nct_id is a unique key there
KeyedTables == {"basic", "desc", "elig"}

\* the tables written by plain INSERTs only: no key beyond nct_id
ChildTables == {"arms", "outcomes", "locations", "conditions", "keywords"}

Columns(table) ==
    CASE table = "basic" -> BasicCols
      [] table = "desc" -> DescCols
      [] table = "elig" -> EligCols
      [] table = "arms" -> ArmCols
      [] table = "outcomes" -> OutcomeCols
      [] table = "locations" -> LocationCols
      [] table = "conditions" -> ConditionCols
      [] table = "keywords" -> KeywordCols

EmptyStore ==
    [basic |-> {}, desc |-> {}, elig |-> {},
     arms |-> EmptyBag, outcomes |-> EmptyBag, locations |-> EmptyBag,
     conditions |-> EmptyBag, keywords |-> EmptyBag]

\* the row an INSERT builds: the columns it does not name are NULL; only
\* trial_basic_info carries updated_at (column default: CURRENT_TIMESTAMP)
NewRow(table, nct_id, values, t) ==
    LET cols == [c \in Columns(table) |->
                    IF c \in DOMAIN values THEN values[c] ELSE None]
    IN  IF table = "basic"
        THEN [nct_id |-> nct_id, cols |-> cols, updated_at |-> t]
        ELSE [nct_id |-> nct_id, cols |-> cols]

\* ON CONFLICT (nct_id) DO UPDATE SET c = EXCLUDED.c for the columns in set
\* (and updated_at = CURRENT_TIMESTAMP on trial_basic_info)
ConflictUpdate(table, old, new, set) ==
    LET cols == [c \in Columns(table) |->
                    IF c \in set THEN new.cols[c] ELSE old.cols[c]]
    IN  IF table = "basic"
        THEN [nct_id |-> old.nct_id, cols |-> cols,
              updated_at |-> IF "updated_at" \in set THEN new.updated_at
                             ELSE old.updated_at]
        ELSE [nct_id |-> old.nct_id, cols |-> cols]

RowsOf(store, table, nct_id) == {r \in store[table] : r.nct_id = nct_id}

Ok(store) == [err |-> "none", store |-> store]

Failed(e, store) == [err |-> e, store |-> store]

\* the slip of a child INSERT that skips a row already there
\* (ON CONFLICT DO NOTHING, or a unique index over the columns)
InsertChildRowIfAbsent(rows, new) ==
    IF BagIn(new, rows) THEN rows ELSE rows (+) SetToBag({new})

\* a plain INSERT into a table without a key: one more row, duplicate or not
InsertChildRow(rows, new) == rows (+) SetToBag({new})

\* cursor.execute of one statement s at transaction time t
Execute(store, s, t) ==
    LET new == NewRow(s.table, s.nct_id, s.values, t)
    IN  IF s.table \in ChildTables
        THEN Ok([store EXCEPT ![s.table] = InsertChildRow(@, new)])
        ELSE LET old == RowsOf(store, s.table, s.nct_id)
             IN  IF old = {}
                 THEN Ok([store EXCEPT ![s.table] = @ \cup {new}])
                 ELSE IF s.op = "upsert"
                 THEN Ok([store EXCEPT ![s.table] =
                            (@ \ old) \cup
                            {ConflictUpdate(s.table, r, new, s.set) : r \in old}])
                 ELSE Failed("UniqueViolation", store)

\* the slip of an except block without rollback: the writes stay pending
RollbackMissing(committed, working) == working

\* connection.rollback(): the transaction's writes are discarded
Rollback(committed, working) == committed

\* connection.commit(): the transaction's writes become the committed state
Commit(committed, working) == working

-----------------------------------------------------------------------------
(* EnhancedDataManager.insert_trial_data *)

UpsertStmt(table, nct_id, values, set) ==
    [op |-> "upsert", table |-> table, nct_id |-> nct_id, values |-> values,
     set |-> set]

InsertStmt(table, nct_id, values) ==
    [op |-> "insert", table |-> table, nct_id |-> nct_id, values |-> values,
     set |-> {}]

\* trial_data.get(key)
Get(d, key) == DictGet(d, key, None)

\* the slip of leaving a column out of the DO UPDATE SET list
BasicConflictSetWithoutTitle ==
    (BasicCols \ {"official_title"}) \cup {"updated_at"}

\* the DO UPDATE SET list of the trial_basic_info upsert
BasicConflictSet == BasicCols \cup {"updated_at"}

\* the slip of reading the key from the wrong field: the row is written
\* under another nct_id than its children
BasicInfoUpsertWrongKey(td) ==
    UpsertStmt("basic", Get(td, "id"), [c \in BasicCols |-> Get(td, c)],
               BasicConflictSet)

\* the statement of lines 61-112
BasicInfoUpsert(td) ==
    UpsertStmt("basic", Get(td, "nct_id"), [c \in BasicCols |-> Get(td, c)],
               BasicConflictSet)

\* trial_data[key] when `if trial_data.get(key)` lets the loop run
TrialList(td, key) == IF Truthy(Get(td, key)) THEN td[key].items ELSE <<>>

\* one INSERT per element of a list, rows[i] being the values of element i
ChildInserts(nct_id, table, rows) ==
    [i \in DOMAIN rows |-> InsertStmt(table, nct_id, rows[i])]

\* the statements insert_trial_data executes for trial_data, in order
insert_trial_data_statements(td) ==
    LET nct_id == Get(td, "nct_id")
        arms == TrialList(td, "arms_interventions")
        outcomes == TrialList(td, "outcomes")
        locations == TrialList(td, "locations")
        conditions == TrialList(td, "conditions")
        keywords == TrialList(td, "keywords")
    IN  <<BasicInfoUpsert(td)>>
        \o (IF Truthy(Get(td, "brief_summary"))
               \/ Truthy(Get(td, "detailed_description"))
            THEN <<UpsertStmt("desc", nct_id,
                              [c \in DescCols |-> Get(td, c)], DescCols)>>
            ELSE <<>>)
        \o (IF Truthy(Get(td, "inclusion_criteria"))
               \/ Truthy(Get(td, "exclusion_criteria"))
            THEN <<UpsertStmt("elig", nct_id,
                              [c \in EligCols |-> Get(td, c)], EligCols)>>
            ELSE <<>>)
        \o ChildInserts(nct_id, "arms",
               [i \in DOMAIN arms |-> [c \in ArmCols |-> Get(arms[i], c)]])
        \o ChildInserts(nct_id, "outcomes",
               [i \in DOMAIN outcomes |-> [c \in OutcomeCols |-> Get(outcomes[i], c)]])
        \o ChildInserts(nct_id, "locations",
               [i \in DOMAIN locations |->
                   [c \in LocationCols |-> Get(locations[i], c)]])
        \o ChildInserts(nct_id, "conditions",
               [i \in DOMAIN conditions |-> [condition_name |-> conditions[i]]])
        \o ChildInserts(nct_id, "keywords",
               [i \in DOMAIN keywords |-> [keyword |-> keywords[i]]])

-----------------------------------------------------------------------------
(* Inputs of insert_trial_data *)

\* records handed to the handlers (the clock ticks once per record)
MaxClock == 3

Txt(c) == Str(<<c>>)

NCT(digit) == Str(<<"N", "C", "T", "0", "0", "0", "0", "0", "0", "0", digit>>)

NctIds == {NCT("1"), NCT("2")}

\* a record that carries every basic-info field
FullBasic ==
    [c \in BasicCols |->
        CASE c \in {"is_fda_regulated_drug", "is_fda_regulated_device",
                    "is_unapproved_device", "is_ppsd", "is_us_export"}
                -> PyBool(c = "is_fda_regulated_drug")
          [] c = "enrollment_count" -> PyInt(100)
          [] c = "start_date" -> Str(<<"2", "0", "2", "0", "-", "0", "1">>)
          [] c = "completion_date" -> Str(<<"2", "0", "2", "1", "-", "0", "1">>)
          [] OTHER -> Txt("a")]

\* a record that carries a title only
SparseBasic == [brief_title |-> Txt("b")]

\* description fields: an empty summary (falsy), a summary only, both texts
EmptySummary == [brief_summary |-> Str(<<>>)]

SummaryOnly == [brief_summary |-> Txt("s")]

BothTexts == [brief_summary |-> Txt("t"), detailed_description |-> Txt("d")]

\* eligibility fields: ages without criteria, inclusion only, everything
AgeOnly == [minimum_age |-> Txt("1")]

InclusionOnly == [inclusion_criteria |-> Txt("i"), gender |-> Txt("F")]

FullEligibility ==
    [inclusion_criteria |-> Txt("j"), exclusion_criteria |-> Txt("e"),
     minimum_age |-> Txt("1"), maximum_age |-> Txt("9"), gender |-> Txt("M"),
     healthy_volunteers |-> PyBool(TRUE)]

\* child lists: none, one element each, and a mix (a repeated arm, an empty
\* outcomes list, two conditions, no keywords)
OneChildEach ==
    [arms_interventions |-> List(<<[arm_group_label |-> Txt("x")]>>),
     outcomes |-> List(<<[outcome_type |-> Txt("P"), outcome_measure |-> Txt("m")]>>),
     locations |-> List(<<[facility_name |-> Txt("f")]>>),
     conditions |-> List(<<Txt("c")>>),
     keywords |-> List(<<Txt("k")>>)]

MixedChildren ==
    [arms_interventions |-> List(<<[arm_group_label |-> Txt("x")],
                                   [arm_group_label |-> Txt("x")]>>),
     outcomes |-> List(<<>>),
     locations |-> List(<<[facility_city |-> Txt("g")]>>),
     conditions |-> List(<<Txt("c"), Txt("d")>>)]

\* the shapes of record the registry mapping hands to insert_trial_data
Profiles ==
    {<<FullBasic, BothTexts, FullEligibility, OneChildEach>>,
     <<SparseBasic, EmptySummary, AgeOnly, EmptyDict>>,
     <<FullBasic, SummaryOnly, InclusionOnly, MixedChildren>>,
     <<SparseBasic, BothTexts, InclusionOnly, OneChildEach>>}

TrialDataInputs ==
    {[nct_id |-> id] @@ p[1] @@ p[2] @@ p[3] @@ p[4] :
        id \in NctIds, p \in Profiles}

-----------------------------------------------------------------------------
(* parse_date *)

Digits == {"0", "1", "2", "3", "4", "5", "6", "7", "8", "9"}

DigitValue(ch) ==
    CASE ch = "0" -> 0 [] ch = "1" -> 1 [] ch = "2" -> 2 [] ch = "3" -> 3
      [] ch = "4" -> 4 [] ch = "5" -> 5 [] ch = "6" -> 6 [] ch = "7" -> 7
      [] ch = "8" -> 8 [] ch = "9" -> 9

Date(y, m, d) == [tag |-> "date", y |-> y, m |-> m, d |-> d]

IsLeap(y) == (y % 4 = 0 /\ y % 100 # 0) \/ y % 400 = 0

DaysInMonth(y, m) ==
    CASE m \in {1, 3, 5, 7, 8, 10, 12} -> 31
      [] m \in {4, 6, 9, 11} -> 30
      [] OTHER -> IF IsLeap(y) THEN 29 ELSE 28

\* datetime.date(y, m, d), None standing for the ValueError parse_date catches
MakeDate(y, m, d) ==
    IF y >= 1 /\ m \in 1..12 /\ d >= 1 /\ d <= DaysInMonth(y, m)
    THEN Date(y, m, d) ELSE None

\* %Y at s[1..4]: exactly four digits
YearOf(s) ==
    DigitValue(s[1]) * 1000 + DigitValue(s[2]) * 100 + DigitValue(s[3]) * 10
        + DigitValue(s[4])

\* %m filling the two characters s[i], s[i+1]: 1[0-2] or 0[1-9]
MonthAt(s, i) ==
    IF (s[i] = "1" /\ s[i + 1] \in {"0", "1", "2"})
       \/ (s[i] = "0" /\ s[i + 1] \in Digits \ {"0"})
    THEN DigitValue(s[i]) * 10 + DigitValue(s[i + 1]) ELSE 0

\* %d filling the two characters s[i], s[i+1]: 3[01], [12]\d, 0[1-9] or ' [1-9]'
DayAt(s, i) ==
    IF \/ s[i] = "3" /\ s[i + 1] \in {"0", "1"}
       \/ s[i] \in {"1", "2"} /\ s[i + 1] \in Digits
       \/ s[i] = "0" /\ s[i + 1] \in Digits \ {"0"}
    THEN DigitValue(s[i]) * 10 + DigitValue(s[i + 1])
    ELSE IF s[i] = " " /\ s[i + 1] \in Digits \ {"0"}
    THEN DigitValue(s[i + 1]) ELSE 0

parse_date(date_str) ==
    IF ~Truthy(date_str) THEN None
    ELSE IF date_str.tag # "str" THEN None
    ELSE LET s == date_str.s
             yearOk == \A i \in 1..4 : s[i] \in Digits
         IN  IF Len(s) = 7
             THEN IF yearOk /\ s[5] = "-" /\ MonthAt(s, 6) # 0
                  THEN MakeDate(YearOf(s), MonthAt(s, 6), 1) ELSE None
             ELSE IF Len(s) = 10
             THEN IF yearOk /\ s[5] = "-" /\ MonthAt(s, 6) # 0 /\ s[8] = "-"
                     /\ DayAt(s, 9) # 0
                  THEN MakeDate(YearOf(s), MonthAt(s, 6), DayAt(s, 9)) ELSE None
             ELSE None

-----------------------------------------------------------------------------
(* The /search-trials ingest: insert_basic_info, insert_arms_interventions,
   insert_outcomes, insert_locations *)

\* trial.get(name, {}) and ident.get(name, {})
Sub(d, name) == DictGet(d, name, EmptyDict)

RECURSIVE str_join(_, _)
\* sep.join(items)
str_join(sep, items) ==
    IF items = <<>> THEN <<>>
    ELSE IF Len(items) = 1 THEN items[1].s
    ELSE items[1].s \o sep \o str_join(sep, Tail(items))

\* "; ".join(d.get(key, []))
JoinNames(d, key) == Str(str_join(<<";", " ">>, DictGet(d, key, List(<<>>)).items))

nctId(trial) == Get(Sub(trial, "identificationModule"), "nctId")

\* the values of the trial_basic_info upsert, lines 198-218
BasicInfoValues(trial) ==
    LET ident == Sub(trial, "identificationModule")
        status == Sub(trial, "statusModule")
        design == Sub(trial, "designModule")
        oversight == Sub(trial, "oversightModule")
    IN  [protocol_section_id |-> Get(Sub(ident, "orgStudyIdInfo"), "id"),
         organization_name |-> Get(Sub(ident, "organization"), "fullName"),
         organization_type |-> Get(Sub(ident, "organization"), "class"),
         brief_title |-> Get(ident, "briefTitle"),
         official_title |-> Get(ident, "officialTitle"),
         status |-> Get(status, "overallStatus"),
         phase |-> Get(design, "phase"),
         study_type |-> Get(design, "studyType"),
         enrollment_count |-> Get(Sub(design, "enrollmentInfo"), "enrollmentCount"),
         enrollment_type |-> Get(Sub(design, "enrollmentInfo"), "enrollmentType"),
         start_date |-> parse_date(Get(Sub(status, "startDateStruct"), "date")),
         completion_date |-> parse_date(Get(Sub(status, "completionDateStruct"), "date")),
         primary_completion_date |->
             parse_date(Get(Sub(status, "primaryCompletionDateStruct"), "date")),
         is_fda_regulated_drug |-> Get(oversight, "isFdaRegulatedDrug"),
         is_fda_regulated_device |-> Get(oversight, "isFdaRegulatedDevice"),
         is_unapproved_device |-> Get(oversight, "isUnapprovedDevice"),
         is_ppsd |-> Get(oversight, "isPpsd"),
         is_us_export |-> Get(oversight, "isUsExport")]

\* the statements of insert_basic_info, lines 169-247; crit is the outcome of
\* the criteria splitting of lines 108-126
insert_basic_info_statements(trial, crit) ==
    LET description == Sub(trial, "descriptionModule")
        eligibility == Sub(trial, "eligibilityModule")
    IN  <<UpsertStmt("basic", nctId(trial), BasicInfoValues(trial), BasicConflictSet)>>
        \o (IF Truthy(Get(description, "briefSummary"))
               \/ Truthy(Get(description, "detailedDescription"))
            THEN <<InsertStmt("desc", nctId(trial),
                     [brief_summary |-> Get(description, "briefSummary"),
                      detailed_description |-> Get(description, "detailedDescription")])>>
            ELSE <<>>)
        \o (IF Truthy(crit.inclusion) \/ Truthy(crit.exclusion)
            THEN <<InsertStmt("elig", nctId(trial),
                     [inclusion_criteria |-> crit.inclusion,
                      exclusion_criteria |-> crit.exclusion,
                      minimum_age |-> Get(eligibility, "minimumAge"),
                      maximum_age |-> Get(eligibility, "maximumAge"),
                      gender |-> Get(eligibility, "gender"),
                      healthy_volunteers |-> Get(eligibility, "healthyVolunteers")])>>
            ELSE <<>>)

\* module.get(key, [])
ListItems(module, key) == DictGet(module, key, List(<<>>)).items

\* one INSERT per element of a list, rows[i] being the values of element i
RawInserts(nct_id, table, rows) ==
    [i \in DOMAIN rows |-> InsertStmt(table, nct_id, rows[i])]

ArmGroupValues(arm) ==
    [intervention_type |-> Str(<<"A", "r", "m", " ", "G", "r", "o", "u", "p">>),
     arm_group_label |-> Get(arm, "label"),
     intervention_description |-> DictGet(arm, "description", Str(<<>>)),
     intervention_name |-> JoinNames(arm, "interventionNames")]

InterventionValues(intervention) ==
    [intervention_type |->
         Str(<<"I", "n", "t", "e", "r", "v", "e", "n", "t", "i", "o", "n">>),
     arm_group_label |-> Get(intervention, "name"),
     intervention_description |-> DictGet(intervention, "description", Str(<<>>)),
     intervention_name |-> JoinNames(intervention, "armGroupLabels")]

insert_arms_interventions_statements(trial) ==
    LET ai == Sub(trial, "armsInterventionsModule")
        armGroups == ListItems(ai, "armGroups")
        interventions == ListItems(ai, "interventions")
    IN  RawInserts(nctId(trial), "arms",
                   [i \in DOMAIN armGroups |-> ArmGroupValues(armGroups[i])])
        \o RawInserts(nctId(trial), "arms",
                      [i \in DOMAIN interventions |->
                          InterventionValues(interventions[i])])

OutcomeValues(kind, o) ==
    [outcome_type |-> Str(kind),
     outcome_measure |-> Get(o, "measure"),
     outcome_time_frame |-> Get(o, "timeFrame"),
     outcome_description |-> DictGet(o, "description", Str(<<>>))]

insert_outcomes_statements(trial) ==
    LET outcomes == Sub(trial, "outcomesModule")
        primaryOutcomes == ListItems(outcomes, "primaryOutcomes")
        secondaryOutcomes == ListItems(outcomes, "secondaryOutcomes")
    IN  RawInserts(nctId(trial), "outcomes",
                   [i \in DOMAIN primaryOutcomes |->
                       OutcomeValues(<<"P", "r", "i", "m", "a", "r", "y">>,
                                     primaryOutcomes[i])])
        \o RawInserts(nctId(trial), "outcomes",
                      [i \in DOMAIN secondaryOutcomes |->
                          OutcomeValues(<<"S", "e", "c", "o", "n", "d", "a", "r", "y">>,
                                        secondaryOutcomes[i])])

LocationValues(loc) ==
    [facility_name |-> Get(loc, "facility"),
     facility_city |-> Get(loc, "city"),
     facility_state |-> Get(loc, "state"),
     facility_zip |-> Get(loc, "zip"),
     facility_country |-> Get(loc, "country")]

insert_locations_statements(trial) ==
    LET locations == ListItems(Sub(trial, "contactsLocationsModule"), "locations")
    IN  RawInserts(nctId(trial), "locations",
                   [i \in DOMAIN locations |-> LocationValues(locations[i])])

Tagged(fn, ss) == [i \in 1..Len(ss) |-> [fn |-> fn, stmt |-> ss[i]]]

\* the criteria splitting at the head of insert_basic_info
TrialCriteria(trial) ==
    insert_basic_info_criteria(Get(Sub(trial, "eligibilityModule"), "eligibilityCriteria"))

\* the statements lines 357-360 execute for one trial, each with its function
trial_statements(trial) ==
    Tagged("insert_basic_info",
           insert_basic_info_statements(trial, TrialCriteria(trial)))
    \o Tagged("insert_arms_interventions", insert_arms_interventions_statements(trial))
    \o Tagged("insert_outcomes", insert_outcomes_statements(trial))
    \o Tagged("insert_locations", insert_locations_statements(trial))

-----------------------------------------------------------------------------
(* Inputs of the ingest: protocolSection objects of the registry *)

\* 'Inclusion Criteria: A Exclusion Criteria B'
SampleCriteria ==
    InclusionLabel \o <<" ", "A", " ">> \o ExclusionMarker \o <<" ", "B">>

\* every module present
RawFull(id) ==
    [identificationModule |->
        [nctId |-> id, orgStudyIdInfo |-> [id |-> Txt("p")],
         organization |-> [fullName |-> Txt("o"), class |-> Txt("I")],
         briefTitle |-> Txt("b"), officialTitle |-> Txt("B")],
     statusModule |->
        [overallStatus |-> Txt("R"),
         startDateStruct |-> [date |-> Str(<<"2", "0", "2", "0", "-", "0", "2">>)],
         completionDateStruct |->
            [date |-> Str(<<"2", "0", "2", "1", "-", "0", "2", "-", "2", "8">>)],
         primaryCompletionDateStruct |->
            [date |-> Str(<<"2", "0", "2", "1", "-", "0", "2", "-", "3", "0">>)]],
     designModule |->
        [studyType |-> Txt("T"), phase |-> Txt("2"),
         enrollmentInfo |-> [enrollmentCount |-> PyInt(50), enrollmentType |-> Txt("E")]],
     oversightModule |-> [isFdaRegulatedDrug |-> PyBool(TRUE)],
     descriptionModule |-> [briefSummary |-> Txt("s"), detailedDescription |-> Txt("d")],
     eligibilityModule |->
        [eligibilityCriteria |-> Str(SampleCriteria), minimumAge |-> Txt("1"),
         gender |-> Txt("A"), healthyVolunteers |-> PyBool(FALSE)],
     armsInterventionsModule |->
        [armGroups |-> List(<<[label |-> Txt("x"),
                               interventionNames |-> List(<<Txt("u"), Txt("v")>>)]>>),
         interventions |-> List(<<[name |-> Txt("u"), description |-> Txt("w")]>>)],
     outcomesModule |->
        [primaryOutcomes |-> List(<<[measure |-> Txt("m"), timeFrame |-> Txt("y")]>>),
         secondaryOutcomes |-> List(<<[measure |-> Txt("n")]>>)],
     contactsLocationsModule |->
        [locations |-> List(<<[facility |-> Txt("f"), city |-> Txt("g")]>>)]]

\* an empty title, criteria without the marker, nothing else
RawBare(id) ==
    [identificationModule |-> [nctId |-> id, briefTitle |-> Str(<<>>)],
     eligibilityModule |-> [eligibilityCriteria |-> Txt("A")]]

\* no eligibilityModule at all
RawNoEligibility(id) ==
    [identificationModule |-> [nctId |-> id, briefTitle |-> Txt("c")],
     descriptionModule |-> [briefSummary |-> Txt("s")]]

\* whitespace-only criteria, no description, one location
RawTitleOnly(id) ==
    [identificationModule |-> [nctId |-> id, briefTitle |-> Txt("e")],
     eligibilityModule |-> [eligibilityCriteria |-> Str(<<" ">>)],
     contactsLocationsModule |-> [locations |-> List(<<[facility |-> Txt("h")]>>)]]

RawTrialInputs ==
    UNION {{RawFull(id), RawBare(id), RawNoEligibility(id), RawTitleOnly(id)} :
           id \in NctIds}

-----------------------------------------------------------------------------
(* The handlers as state machines *)

\* parse_date has not been called
NotParsed == [tag |-> "unset"]

DateIdle == date_arg = None /\ parsed = NotParsed

\* no corpus sampled, no DataQualityChecker method has run
NoSample == [tag |-> "unset"]

NoResults == [tag |-> "unset"]

NoAssessment == [tag |-> "unset"]

QualityIdle ==
    /\ sample = NoSample
    /\ check_results = NoResults
    /\ quality_issues = <<>>
    /\ quality_assessment = NoAssessment
    /\ calls = 0
    /\ seen = <<>>

Init ==
    /\ criteria = None
    /\ split = [site |-> "none", raised |-> FALSE, parts |-> <<>>,
                inclusion |-> None, exclusion |-> None]
    /\ db = EmptyStore
    /\ work = EmptyStore
    /\ pc = "idle"
    /\ cur = EmptyDict
    /\ stmts = <<>>
    /\ pos = 0
    /\ extracted_trials = <<>>
    /\ now = 0
    /\ txn_start = 0
    /\ err = "none"
    /\ ret = "none"
    /\ manager_connection = "open"
    /\ DateIdle
    /\ QualityIdle

\* insert_trial_data(trial_data) is called: the cursor is opened, and the
\* first statement will open the transaction
insert_trial_data(td) ==
    /\ pc = "idle"
    /\ now < MaxClock
    /\ pc' = "insert_trial_data"
    /\ cur' = td
    /\ stmts' = insert_trial_data_statements(td)
    /\ pos' = 0
    /\ now' = now + 1
    /\ txn_start' = now + 1
    /\ err' = "none"
    /\ ret' = "none"
    /\ UNCHANGED <<nonStoreVars, db, work, extracted_trials>>

\* cursor.execute of the next statement, when it writes to `table`
ManagerExecute(table) ==
    /\ pc = "insert_trial_data"
    /\ pos < Len(stmts)
    /\ stmts[pos + 1].table = table
    /\ LET r == Execute(work, stmts[pos + 1], txn_start)
       IN  IF r.err = "none"
           THEN /\ work' = r.store
                /\ pos' = pos + 1
                /\ UNCHANGED <<pc, err>>
           ELSE /\ pc' = "insert_trial_data_except"
                /\ err' = r.err
                /\ UNCHANGED <<work, pos>>
    /\ UNCHANGED <<nonStoreVars, db, cur, stmts, extracted_trials, now, txn_start, ret>>

UpsertBasicInfo ==
    /\ pc = "insert_trial_data"
    /\ ManagerExecute("basic")

UpsertDescription ==
    /\ pc = "insert_trial_data"
    /\ ManagerExecute("desc")

UpsertEligibility ==
    /\ pc = "insert_trial_data"
    /\ ManagerExecute("elig")

InsertArm ==
    /\ pc = "insert_trial_data"
    /\ ManagerExecute("arms")

InsertOutcome ==
    /\ pc = "insert_trial_data"
    /\ ManagerExecute("outcomes")

InsertLocation ==
    /\ pc = "insert_trial_data"
    /\ ManagerExecute("locations")

InsertCondition ==
    /\ pc = "insert_trial_data"
    /\ ManagerExecute("conditions")

InsertKeyword ==
    /\ pc = "insert_trial_data"
    /\ ManagerExecute("keywords")

\* the next statement (or the commit) raises: the store rejects it, the
\* connection staying open
ManagerStatementFails ==
    /\ pc = "insert_trial_data"
    /\ pc' = "insert_trial_data_except"
    /\ err' = "OperationalError"
    /\ UNCHANGED <<nonStoreVars, db, work, cur, stmts, pos, extracted_trials, now,
                   txn_start, ret>>

\* self.connection.commit(); return True
ManagerCommit ==
    /\ pc = "insert_trial_data"
    /\ pos = Len(stmts)
    /\ db' = Commit(db, work)
    /\ work' = Commit(db, work)
    /\ pc' = "idle"
    /\ ret' = "True"
    /\ stmts' = <<>>
    /\ UNCHANGED <<nonStoreVars, cur, pos, extracted_trials, now, txn_start, err>>

\* except: self.connection.rollback(); return False
ManagerRollback ==
    /\ pc = "insert_trial_data_except"
    /\ work' = Rollback(db, work)
    /\ db' = db
    /\ pc' = "idle"
    /\ ret' = "False"
    /\ cur' = EmptyDict
    /\ stmts' = <<>>
    /\ UNCHANGED <<nonStoreVars, pos, extracted_trials, now, txn_start, err>>

ManagerNext ==
    \/ \E td \in TrialDataInputs : insert_trial_data(td)
    \/ UpsertBasicInfo
    \/ UpsertDescription
    \/ UpsertEligibility
    \/ InsertArm
    \/ InsertOutcome
    \/ InsertLocation
    \/ InsertCondition
    \/ InsertKeyword
    \/ ManagerStatementFails
    \/ ManagerCommit
    \/ ManagerRollback

\* POST /search-trials with a non-empty result: conn = connect_db()
search_and_extract_trials ==
    /\ pc = "idle"
    /\ now < MaxClock
    /\ pc' = "search_and_extract_trials"
    /\ extracted_trials' = <<>>
    /\ cur' = EmptyDict
    /\ stmts' = <<>>
    /\ pos' = 0
    /\ err' = "none"
    /\ ret' = "none"
    /\ UNCHANGED <<nonStoreVars, db, work, now, txn_start>>

\* for trial in trials: the next trial enters insert_basic_info, whose
\* criteria splitting may raise before any statement is sent
NextTrial(trial) ==
    /\ pc = "search_and_extract_trials"
    /\ now < MaxClock
    /\ now' = now + 1
    /\ txn_start' = IF work = db /\ extracted_trials = <<>> THEN now + 1 ELSE txn_start
    /\ cur' = trial
    /\ pos' = 0
    /\ IF TrialCriteria(trial).raised
       THEN /\ pc' = "search_and_extract_trials_except"
            /\ err' = "TypeError"
            /\ stmts' = <<>>
       ELSE /\ pc' = "trial"
            /\ err' = "none"
            /\ stmts' = trial_statements(trial)
    /\ UNCHANGED <<nonStoreVars, db, work, extracted_trials, ret>>

\* cur.execute of the next statement, when function fn issues it
IngestExecute(fn) ==
    /\ pos < Len(stmts)
    /\ stmts[pos + 1].fn = fn
    /\ LET r == Execute(work, stmts[pos + 1].stmt, txn_start)
       IN  IF r.err = "none"
           THEN /\ work' = r.store
                /\ pos' = pos + 1
                /\ UNCHANGED <<pc, err>>
           ELSE /\ pc' = "search_and_extract_trials_except"
                /\ err' = r.err
                /\ UNCHANGED <<work, pos>>
    /\ UNCHANGED <<nonStoreVars, db, cur, stmts, extracted_trials, now, txn_start, ret>>

insert_basic_info ==
    /\ pc = "trial"
    /\ IngestExecute("insert_basic_info")

insert_arms_interventions ==
    /\ pc = "trial"
    /\ IngestExecute("insert_arms_interventions")

insert_outcomes ==
    /\ pc = "trial"
    /\ IngestExecute("insert_outcomes")

insert_locations ==
    /\ pc = "trial"
    /\ IngestExecute("insert_locations")

\* the next statement raises: the connection is lost
IngestStatementFails ==
    /\ pc = "trial"
    /\ pos < Len(stmts)
    /\ pc' = "search_and_extract_trials_except"
    /\ err' = "OperationalError"
    /\ UNCHANGED <<nonStoreVars, db, work, cur, stmts, pos, extracted_trials, now,
                   txn_start, ret>>

\* lines 362-402: the response entry is built and appended
AppendResponse ==
    /\ pc = "trial"
    /\ pos = Len(stmts)
    /\ IF response_criteria(
              Get(Sub(cur, "eligibilityModule"), "eligibilityCriteria")).raised
       THEN /\ pc' = "search_and_extract_trials_except"
            /\ err' = "TypeError"
            /\ UNCHANGED extracted_trials
       ELSE /\ pc' = "search_and_extract_trials"
            /\ extracted_trials' = Append(extracted_trials, nctId(cur))
            /\ UNCHANGED err
    /\ UNCHANGED <<nonStoreVars, db, work, cur, stmts, pos, now, txn_start, ret>>

\* conn.commit() after the loop; return extracted_trials
IngestCommit ==
    /\ pc = "search_and_extract_trials"
    /\ extracted_trials # <<>>
    /\ db' = Commit(db, work)
    /\ work' = Commit(db, work)
    /\ pc' = "idle"
    /\ ret' = "200"
    /\ cur' = EmptyDict
    /\ stmts' = <<>>
    /\ pos' = 0
    /\ extracted_trials' = <<>>
    /\ UNCHANGED <<nonStoreVars, now, txn_start, err>>

\* conn.commit() raises
IngestCommitFails ==
    /\ pc = "search_and_extract_trials"
    /\ extracted_trials # <<>>
    /\ pc' = "search_and_extract_trials_except"
    /\ err' = "OperationalError"
    /\ UNCHANGED <<nonStoreVars, db, work, cur, stmts, pos, extracted_trials, now,
                   txn_start, ret>>

\* except: conn.rollback(); raise HTTPException(500)
IngestRollback ==
    /\ pc = "search_and_extract_trials_except"
    /\ work' = Rollback(db, work)
    /\ db' = db
    /\ pc' = "idle"
    /\ ret' = "500"
    /\ cur' = EmptyDict
    /\ stmts' = <<>>
    /\ pos' = 0
    /\ extracted_trials' = <<>>
    /\ UNCHANGED <<nonStoreVars, now, txn_start, err>>

IngestNext ==
    \/ search_and_extract_trials
    \/ \E trial \in RawTrialInputs : NextTrial(trial)
    \/ insert_basic_info
    \/ insert_arms_interventions
    \/ insert_outcomes
    \/ insert_locations
    \/ IngestStatementFails
    \/ AppendResponse
    \/ IngestCommit
    \/ IngestCommitFails
    \/ IngestRollback

Next == ManagerNext \/ IngestNext

Spec == Init /\ [][Next]_vars

\* the store written by insert_trial_data alone
SpecManager == Init /\ [][ManagerNext]_vars

\* the store written by the /search-trials ingest alone
SpecIngest == Init /\ [][IngestNext]_vars

\* no handler has run on the store
StoreIdle ==
    /\ db = EmptyStore
    /\ work = EmptyStore
    /\ pc = "idle"
    /\ cur = EmptyDict
    /\ stmts = <<>>
    /\ pos = 0
    /\ extracted_trials = <<>>
    /\ now = 0
    /\ txn_start = 0
    /\ err = "none"
    /\ ret = "none"
    /\ manager_connection = "open"

-----------------------------------------------------------------------------
(* parse_date on its own *)

YearTexts ==
    {<<"2", "0", "2", "0">>, <<"2", "0", "2", "1">>, <<"1", "9", "0", "0">>,
     <<"0", "0", "0", "1">>, <<"0", "0", "0", "0">>, <<"2", "0", "x", "0">>}

MonthTexts ==
    {<<"0", "1">>, <<"0", "2">>, <<"1", "2">>, <<"1", "3">>, <<"0", "0">>,
     <<" ", "1">>, <<"2", "x">>, <<"1", "-">>}

DayTexts ==
    {<<"0", "1">>, <<"2", "8">>, <<"2", "9">>, <<"3", "0">>, <<"3", "1">>,
     <<"0", "0">>, <<"3", "2">>, <<" ", "5">>, <<"5", " ">>, <<"x", "1">>}

SeparatorTexts == {<<"-">>, <<"/">>}

\* strings of length 7 and 10, of the two shapes and near them
DateTexts ==
    {y \o a \o m : y \in YearTexts, a \in SeparatorTexts, m \in MonthTexts}
    \cup {y \o a \o m \o b \o d :
             y \in YearTexts, a \in SeparatorTexts, m \in MonthTexts,
             b \in SeparatorTexts, d \in DayTexts}
    \cup {<<>>, <<"2", "0", "2", "0">>, <<"2", "0", "2", "0", "-", "1", "-", "1">>}

\* what a record can carry where a date is expected
DateInputs ==
    {Str(t) : t \in DateTexts}
    \cup {None, PyInt(0), PyInt(2020), PyBool(TRUE), List(<<>>),
          List(<<PyInt(2020), PyInt(1)>>), Dict(EmptyDict),
          Dict([date |-> Str(<<"2", "0", "2", "0", "-", "0", "1">>)])}

DateInit ==
    /\ date_arg \in DateInputs
    /\ parsed = NotParsed
    /\ criteria = None
    /\ split = [site |-> "none", raised |-> FALSE, parts |-> <<>>,
                inclusion |-> None, exclusion |-> None]
    /\ StoreIdle
    /\ QualityIdle

\* parse_date(date_str), lines 49-61
ParseDate ==
    /\ parsed = NotParsed
    /\ parsed' = parse_date(date_arg)
    /\ UNCHANGED <<date_arg, criteria, split, storeVars, qualityVars, manager_connection>>

SpecDate == DateInit /\ [][ParseDate]_vars

-----------------------------------------------------------------------------
(* DataQualityChecker: the category checks and the scorer.                  *)
(* The store is seen through what its queries return: `sample` holds the    *)
(* count of trial_basic_info rows, the count every check query finds, and   *)
(* the query at which the store starts to fail, if any.  Scores are kept as *)
(* exact fractions; a reported score is a number of hundredths (70.0 is     *)
(* 7000), the nearest to the fraction, as round(score, 2) gives it.        *)

Range(seq) == {seq[i] : i \in DOMAIN seq}

\* the check names of the four categories, in the order their queries run
completeness_checks ==
    <<"missing_nct_id", "missing_brief_title", "missing_official_title",
      "missing_status", "missing_study_type", "missing_organization",
      "missing_descriptions", "missing_eligibility">>

consistency_checks ==
    <<"invalid_dates", "invalid_enrollment", "duplicate_nct_ids", "orphaned_records">>

format_checks ==
    <<"invalid_nct_format", "invalid_email_format", "invalid_phone_format",
      "invalid_date_format">>

relationship_checks ==
    <<"missing_conditions", "missing_keywords", "missing_outcomes",
      "missing_locations">>

\* the categories in the order check_data_quality_score runs them
Categories == <<"completeness", "consistency", "format", "relationships">>

CategoryIndex(category) == CHOOSE i \in DOMAIN Categories : Categories[i] = category

ChecksOf(category) ==
    CASE category = "completeness" -> completeness_checks
      [] category = "consistency" -> consistency_checks
      [] category = "format" -> format_checks
      [] category = "relationships" -> relationship_checks

Min(a, b) == IF a <= b THEN a ELSE b

Max(a, b) == IF a >= b THEN a ELSE b

\* the lines one check appends to quality_issues when its query finds n:
\* a headline, then one line per duplicate identifier, or up to five examples
\* of a format check
IssueLines(category, check, n) ==
    IF n = 0 THEN <<>>
    ELSE <<[check |-> check, count |-> n, example |-> 0]>>
         \o [i \in 1..(IF check = "duplicate_nct_ids" THEN n
                       ELSE IF category = "format" THEN Min(n, 5)
                       ELSE 0) |->
                [check |-> check, count |-> n, example |-> i]]

RECURSIVE IssuesOfFirst(_, _, _)
\* the lines appended by the first k checks of a category
IssuesOfFirst(category, counts, k) ==
    IF k = 0 THEN <<>>
    ELSE IssuesOfFirst(category, counts, k - 1)
         \o IssueLines(category, ChecksOf(category)[k], counts[ChecksOf(category)[k]])

\* check_data_completeness, check_data_consistency, check_data_format and
\* check_data_relationships: the dict of counts, or {} when the query number
\* failAt raises (failAt = 0: none does); the lines of the checks that ran
\* before it stay in quality_issues
CategoryCheck(category, counts, failAt) ==
    [raised |-> failAt # 0,
     results |-> IF failAt = 0 THEN counts ELSE EmptyDict,
     issues |-> IssuesOfFirst(category, counts,
                              IF failAt = 0 THEN Len(ChecksOf(category))
                              ELSE failAt - 1)]

\* where the store starts to fail: nowhere, at the count of line 216, or at
\* a query of a category check
NoFailure == [category |-> "none", query |-> 0]

TotalFailure == [category |-> "total", query |-> 1]

\* the query of `category` that raises under `failure`: a store error leaves
\* the connection's transaction aborted (or the connection lost), so every
\* query after the first failing one raises too
FailAt(category, failure) ==
    IF failure.category \in {"none", "total"} THEN 0
    ELSE IF CategoryIndex(category) < CategoryIndex(failure.category) THEN 0
    ELSE IF category = failure.category THEN failure.query
    ELSE 1

RECURSIVE SumValues(_, _)
\* sum(results.values())
SumValues(results, names) ==
    IF names = <<>> THEN 0
    ELSE (IF Head(names) \in DOMAIN results THEN results[Head(names)] ELSE 0)
         + SumValues(results, Tail(names))

Rat(num, den) == [num |-> num, den |-> den]

\* the slip of leaving out the clamp at 0
category_score_unclamped(issue_count, total_trials) ==
    Rat(100 * total_trials - 100 * issue_count, total_trials)

\* max(0, 100 - (issue_count / total_trials) * 100), lines 235, 240, 245, 250
category_score(issue_count, total_trials) ==
    Rat(Max(0, 100 * total_trials - 100 * issue_count), total_trials)

\* the slip of giving completeness the weight of format and format the
\* weight of completeness
overall_score_weights_swapped(completeness, consistency, format, relationship) ==
    Rat(2 * completeness.num + 3 * consistency.num + 3 * format.num
        + 2 * relationship.num, 10 * completeness.den)

\* lines 253-258: 0.3, 0.3, 0.2 and 0.2 of four fractions of one denominator
overall_score(completeness, consistency, format, relationship) ==
    Rat(3 * completeness.num + 3 * consistency.num + 2 * format.num
        + 2 * relationship.num, 10 * completeness.den)

\* the slip of cutting the digits off instead of rounding
round2_down(score) == (100 * score.num) \div score.den

\* round(score, 2), in hundredths: the nearest, the even one at a tie
round2(score) ==
    LET n == 100 * score.num
        q == n \div score.den
        rest == n % score.den
    IN  IF 2 * rest > score.den \/ (2 * rest = score.den /\ q % 2 = 1)
        THEN q + 1 ELSE q

\* _get_quality_level, lines 278-289
get_quality_level(score) ==
    IF score.num >= 90 * score.den THEN "Excellent"
    ELSE IF score.num >= 80 * score.den THEN "Good"
    ELSE IF score.num >= 70 * score.den THEN "Fair"
    ELSE IF score.num >= 60 * score.den THEN "Poor"
    ELSE "Critical"

\* the slip of scoring an empty corpus like any other
NeverNoData(total_trials) == FALSE

\* if total_trials == 0, line 219
NoData(total_trials) == total_trials = 0

\* the value returned at lines 220-230
NoDataAssessment ==
    [overall_score |-> 0, completeness_score |-> 0, consistency_score |-> 0,
     format_score |-> 0, relationship_score |-> 0, total_trials |-> 0,
     total_issues |-> 0, quality_level |-> "No Data", message |-> "No trials found"]

\* the value returned by the except block, line 276
ErrorAssessment(e) == [quality_score |-> 0, error |-> e]

\* check_data_quality_score over the query results of s, with the issue
\* list as it stands: the returned value, what the four checks returned, and
\* the issue list afterwards
QualityScore(s, issues) ==
    IF s.failure = TotalFailure
    THEN [assessment |-> ErrorAssessment("OperationalError"),
          checks |-> NoResults, issues |-> issues]
    ELSE IF NoData(s.total)
    THEN [assessment |-> NoDataAssessment, checks |-> NoResults, issues |-> issues]
    ELSE
    LET ran == [i \in DOMAIN Categories |->
                   CategoryCheck(Categories[i], s.counts[Categories[i]],
                                 FailAt(Categories[i], s.failure))]
        count == [i \in DOMAIN Categories |->
                     SumValues(ran[i].results, ChecksOf(Categories[i]))]
        all_issues == issues \o ran[1].issues \o ran[2].issues \o ran[3].issues
                          \o ran[4].issues
    IN  IF s.total = 0
        THEN \* the division of line 235 raises ZeroDivisionError
             [assessment |-> ErrorAssessment("ZeroDivisionError"),
              checks |-> NoResults, issues |-> issues \o ran[1].issues]
        ELSE
        LET score == [i \in DOMAIN Categories |-> category_score(count[i], s.total)]
            overall == overall_score(score[1], score[2], score[3], score[4])
        IN  [assessment |->
                [overall_score |-> round2(overall),
                 completeness_score |-> round2(score[1]),
                 consistency_score |-> round2(score[2]),
                 format_score |-> round2(score[3]),
                 relationship_score |-> round2(score[4]),
                 total_trials |-> s.total,
                 total_issues |-> Len(all_issues),
                 quality_level |-> get_quality_level(overall)],
             checks |->
                [c \in Range(Categories) |->
                    [raised |-> ran[CategoryIndex(c)].raised,
                     results |-> ran[CategoryIndex(c)].results,
                     issue_count |-> count[CategoryIndex(c)],
                     score |-> score[CategoryIndex(c)]]],
             issues |-> all_issues]


-----------------------------------------------------------------------------
(* Sampled corpora of the scorer *)

\* the largest corpus whose counts are enumerated
MaxTrials == 2

\* the two checks of each category whose counts vary over the samples
VariedChecks(category) ==
    CASE category = "completeness" -> <<"missing_official_title", "missing_descriptions">>
      [] category = "consistency" -> <<"invalid_dates", "orphaned_records">>
      [] category = "format" -> <<"invalid_nct_format", "invalid_email_format">>
      [] category = "relationships" -> <<"missing_conditions", "missing_keywords">>

\* the counts of a category: a and b for its two varied checks, 0 elsewhere
Counts(category, a, b) ==
    [name \in Range(ChecksOf(category)) |->
        IF name = VariedChecks(category)[1] THEN a
        ELSE IF name = VariedChecks(category)[2] THEN b
        ELSE 0]

\* none, one row, every row, and every row found by two checks
CountPairs(total) == {<<0, 0>>, <<1, 0>>, <<total, 0>>, <<total, total>>}

\* the store never fails, fails at the count of trials, or from the first or
\* the last query of a category on
Failures ==
    {NoFailure, TotalFailure}
    \cup UNION {{[category |-> c, query |-> q] : q \in {1, Len(ChecksOf(c))}} :
                c \in Range(Categories)}

Sample(total, completeness, consistency, format, relationships, failure) ==
    [total |-> total,
     counts |-> [completeness |-> Counts("completeness", completeness[1], completeness[2]),
                 consistency |-> Counts("consistency", consistency[1], consistency[2]),
                 format |-> Counts("format", format[1], format[2]),
                 relationships |->
                     Counts("relationships", relationships[1], relationships[2])],
     failure |-> failure]

Clean == <<0, 0>>

\* an empty corpus; every small corpus with every failure; 10 trials with 3
\* completeness issues; 3000 trials with 999 completeness and 2 relationship
\* issues; 4001 trials with 1 format issue
Samples ==
    {Sample(0, Clean, Clean, Clean, Clean, f) : f \in {NoFailure, TotalFailure}}
    \cup UNION {{Sample(t, a, b, c, d, f) :
                    a \in CountPairs(t), b \in CountPairs(t), c \in CountPairs(t),
                    d \in CountPairs(t), f \in Failures} : t \in 1..MaxTrials}
    \cup {Sample(10, <<3, 0>>, Clean, Clean, Clean, NoFailure),
          Sample(3000, <<999, 0>>, Clean, Clean, <<0, 2>>, NoFailure),
          Sample(4001, Clean, Clean, <<1, 0>>, Clean, NoFailure)}

ScoreInit ==
    /\ sample \in Samples
    /\ check_results = NoResults
    /\ quality_issues = <<>>
    /\ quality_assessment = NoAssessment
    /\ calls = 0
    /\ seen = <<>>
    /\ criteria = None
    /\ split = [site |-> "none", raised |-> FALSE, parts |-> <<>>,
                inclusion |-> None, exclusion |-> None]
    /\ DateIdle
    /\ StoreIdle

\* check_data_quality_score, lines 210-276, on a new DataQualityChecker
check_data_quality_score ==
    /\ sample # NoSample
    /\ quality_assessment = NoAssessment
    /\ LET r == QualityScore(sample, quality_issues)
       IN  /\ quality_assessment' = r.assessment
           /\ check_results' = r.checks
           /\ quality_issues' = r.issues
    /\ calls' = calls + 1
    /\ UNCHANGED <<sample, seen, criteria, split, dateVars, storeVars, manager_connection>>

SpecScore == ScoreInit /\ [][check_data_quality_score]_vars

-----------------------------------------------------------------------------
(* Properties of the write paths, checked under Spec *)

\* the rows of a child table as a set, and the number of rows of one trial
ChildRows(store, table) == BagToSet(store[table])

RowCount(store, table, nct_id) ==
    LET b == store[table]
        mine == {r \in BagToSet(b) : r.nct_id = nct_id}
    IN  BagCardinality([r \in mine |-> b[r]])

\* the rows a list of child elements stands for, as a bag
RowBag(rows) ==
    [r \in Range(rows) |-> Cardinality({i \in DOMAIN rows : rows[i] = r})]

ListOf(td, key) == IF Truthy(Get(td, key)) THEN td[key].items ELSE <<>>

ChildKey(table) == IF table = "arms" THEN "arms_interventions" ELSE table

\* the row of `table` that element x of trial_data's list becomes
ExpectedChildRow(table, nct_id, x) ==
    [nct_id |-> nct_id,
     cols |-> CASE table = "conditions" -> [condition_name |-> x]
                [] table = "keywords" -> [keyword |-> x]
                [] OTHER -> [c \in Columns(table) |-> Get(x, c)]]

\* the one row of a keyed table that trial_data asks for
ExpectedRow(table, td, t) ==
    IF table = "basic"
    THEN [nct_id |-> td["nct_id"], cols |-> [c \in BasicCols |-> Get(td, c)],
          updated_at |-> t]
    ELSE [nct_id |-> td["nct_id"], cols |-> [c \in Columns(table) |-> Get(td, c)]]

Writes(table, td) ==
    CASE table = "basic" -> TRUE
      [] table = "desc" ->
            Truthy(Get(td, "brief_summary")) \/ Truthy(Get(td, "detailed_description"))
      [] table = "elig" ->
            Truthy(Get(td, "inclusion_criteria")) \/ Truthy(Get(td, "exclusion_criteria"))

\* the store with the whole of trial_data applied at time t
Applied(store, td, t) ==
    [table \in DOMAIN store |->
        IF table \in KeyedTables
        THEN IF Writes(table, td)
             THEN (store[table] \ RowsOf(store, table, td["nct_id"]))
                      \cup {ExpectedRow(table, td, t)}
             ELSE store[table]
        ELSE LET xs == ListOf(td, ChildKey(table))
             IN  store[table] (+)
                 RowBag([i \in DOMAIN xs |->
                            ExpectedChildRow(table, td["nct_id"], xs[i])])]

InManager == pc \in {"insert_trial_data", "insert_trial_data_except"}

\* a step in which insert_trial_data commits and returns True
ManagerCommits == pc = "insert_trial_data" /\ pc' = "idle" /\ ret' = "True"

\* a step in which insert_trial_data returns False
ManagerFails == InManager /\ pc' = "idle" /\ ret' = "False"

\* C1: insert_trial_data is atomic per record. While it runs the committed
\* tables change only by its commit, and then to the store with the whole
\* record applied; when a statement (or the commit) fails the call returns
\* with every table as before the call and nothing left pending.
C1_Atomic ==
    [][/\ (InManager /\ db' # db) =>
              (ManagerCommits /\ db' = Applied(db, cur, txn_start))
       /\ ManagerFails => (db' = db /\ work' = db)
       /\ (InManager /\ pc' = "idle") => work' = db']_vars

\* C1 witness: a call whose statement failed after four statements had run,
\* over a store that already held rows, has returned False.
C1_Witness ==
    /\ pc = "idle"
    /\ ret = "False"
    /\ err = "OperationalError"
    /\ pos >= 4
    /\ db.basic # {}
    /\ work = db

\* C2: trial_basic_info never holds two rows of one nct_id, and a successful
\* insert_trial_data leaves for its nct_id exactly one row that carries the
\* record's value in every mutable column (NULL where the record lacks the
\* field) and a refreshed updated_at, later than the one it replaced.
C2_BasicInfoUpsert ==
    [][/\ \A id \in NctIds : Cardinality(RowsOf(db', "basic", id)) <= 1
       /\ ManagerCommits =>
             /\ RowsOf(db', "basic", cur["nct_id"])
                    = {ExpectedRow("basic", cur, txn_start)}
             /\ \A old \in RowsOf(db, "basic", cur["nct_id"]) :
                    old.updated_at < txn_start
             /\ \A id \in NctIds \ {cur["nct_id"]} :
                    RowsOf(db', "basic", id) = RowsOf(db, "basic", id)]_vars

\* C2 witness: a record without official_title and without description was
\* committed for an nct_id that already had a description row, so its basic
\* row was an update, and official_title is now NULL.
C2_Witness ==
    /\ pc = "idle"
    /\ ret = "True"
    /\ "official_title" \notin DOMAIN cur
    /\ ~Writes("desc", cur)
    /\ RowsOf(db, "desc", cur["nct_id"]) # {}
    /\ \E r \in RowsOf(db, "basic", cur["nct_id"]) :
          r.cols["official_title"] = None /\ r.updated_at = txn_start

\* C3 (as claimed): after a successful insert_trial_data there is at most one
\* Description row and one Eligibility row of its nct_id, and each holds the
\* values of that call, whatever fields the record carries.
C3_LatestValues ==
    (pc = "idle" /\ ret = "True") =>
        \A table \in {"desc", "elig"} :
            /\ Cardinality(RowsOf(db, table, cur["nct_id"])) <= 1
            /\ \A r \in RowsOf(db, table, cur["nct_id"]) :
                  r = ExpectedRow(table, cur, 0)

\* C4: a successful insert_trial_data adds to every child table exactly as
\* many rows of its nct_id as the record's list has elements, whatever rows
\* are there already, and none for another nct_id.
C4_ChildAppend ==
    [][ManagerCommits =>
          \A table \in ChildTables : \A id \in NctIds :
              RowCount(db', table, id) =
                  RowCount(db, table, id)
                  + (IF id = cur["nct_id"] THEN Len(ListOf(cur, ChildKey(table)))
                     ELSE 0)]_vars

\* C4 witness: the record with two conditions was committed twice for one
\* nct_id: each of its condition rows is there twice.
C4_Witness ==
    /\ pc = "idle"
    /\ ret = "True"
    /\ Len(ListOf(cur, "conditions")) = 2
    /\ \A i \in 1..2 :
          CopiesIn(ExpectedChildRow("conditions", cur["nct_id"],
                                    ListOf(cur, "conditions")[i]),
                   db.conditions) = 2
    /\ RowCount(db, "arms", cur["nct_id"]) = 4

NextStmt == stmts[pos + 1].stmt

\* C5 (as claimed): when the ingest reaches the Description or Eligibility
\* write of a trial whose nct_id already has such a row, the write goes
\* through (unless the connection drops) and leaves exactly one row of that
\* nct_id, holding the new values.
C5_IngestReplaces ==
    [][(/\ pc = "trial"
        /\ pos < Len(stmts)
        /\ NextStmt.table \in {"desc", "elig"}
        /\ RowsOf(work, NextStmt.table, NextStmt.nct_id) # {}
        /\ pc' # "trial" \/ pos' # pos
        /\ err' # "OperationalError")
       => (/\ pc' = "trial"
           /\ RowsOf(work', NextStmt.table, NextStmt.nct_id)
                 = {NewRow(NextStmt.table, NextStmt.nct_id, NextStmt.values, 0)})]_vars

\* C6 (as claimed): when the ingest ends in a failure, the trials of the batch
\* that were completed before the failing one stay persisted.
C6_EarlierTrialsKept ==
    [][(pc = "search_and_extract_trials_except" /\ pc' = "idle") =>
          \A i \in DOMAIN extracted_trials :
              RowsOf(db', "basic", extracted_trials[i]) # {}]_vars

HasParent(store, r) == RowsOf(store, "basic", r.nct_id) # {}

NoOrphans(store) ==
    /\ \A table \in {"desc", "elig"} : \A r \in store[table] : HasParent(store, r)
    /\ \A table \in ChildTables :
          \A r \in ChildRows(store, table) : HasParent(store, r)

BlankString(v) == v.tag = "str" /\ str_strip(v.s) = <<>>

\* C11 (as claimed): no column of a trial_basic_info, trial_descriptions or
\* trial_eligibility row the ingest has committed holds an empty or
\* whitespace-only string.
C11_NoBlankStrings ==
    \A table \in KeyedTables : \A r \in db[table] :
        \A c \in DOMAIN r.cols : ~BlankString(r.cols[c])

\* C13 (as claimed): the mapping of a record never raises, so the only
\* exceptions that end a batch come from the store.
C13_OnlyStoreErrors ==
    pc = "search_and_extract_trials_except"
        => err \in {"OperationalError", "UniqueViolation"}

-----------------------------------------------------------------------------
(* Properties of parse_date, checked under SpecDate *)

DigitsAt(s, i, j) == \A n \in i..j : s[n] \in Digits

NumberAt(s, i, j) ==
    IF i = j THEN DigitValue(s[i])
    ELSE DigitValue(s[i]) * 10 + DigitValue(s[j])

ShapeYM(s) == Len(s) = 7 /\ DigitsAt(s, 1, 4) /\ s[5] = "-" /\ DigitsAt(s, 6, 7)

ShapeYMD(s) == Len(s) = 10 /\ DigitsAt(s, 1, 4) /\ s[5] = "-" /\ DigitsAt(s, 6, 7)
               /\ s[8] = "-" /\ DigitsAt(s, 9, 10)

CalendarDate(y, m, d) ==
    y >= 1 /\ m \in 1..12 /\ d >= 1 /\ d <= DaysInMonth(y, m)

\* the date a value stands for under the two shapes, None for any other value
DateOfShape(v) ==
    IF v.tag # "str" THEN None
    ELSE LET s == v.s
             y == YearOf(s)
             m == NumberAt(s, 6, 7)
         IN  IF ShapeYM(s) /\ CalendarDate(y, m, 1) THEN Date(y, m, 1)
             ELSE IF ShapeYMD(s) /\ CalendarDate(y, m, NumberAt(s, 9, 10))
             THEN Date(y, m, NumberAt(s, 9, 10))
             ELSE None

\* C12 (as claimed): parse_date returns the calendar date of a valid YYYY-MM
\* (its first day) or YYYY-MM-DD string, and None for every other value.
C12_ParseDate == parsed # NotParsed => parsed = DateOfShape(date_arg)

\* C12, nearby: the only values outside the two shapes that parse_date maps to
\* a date are YYYY-MM- D strings, a space standing for the day's first digit.
C12_ParseDateButSpaceDay ==
    (parsed # NotParsed /\ parsed # DateOfShape(date_arg)) =>
        /\ date_arg.tag = "str"
        /\ Len(date_arg.s) = 10
        /\ date_arg.s[9] = " "
        /\ parsed = Date(YearOf(date_arg.s), NumberAt(date_arg.s, 6, 7),
                         DigitValue(date_arg.s[10]))

-----------------------------------------------------------------------------
(* Properties of the scorer, checked under SpecScore *)

\* check_data_quality_score has returned
Scored == quality_assessment # NoAssessment

\* it has returned after running the four category checks
Ran == Scored /\ check_results # NoResults

ScoreKey(category) ==
    CASE category = "completeness" -> "completeness_score"
      [] category = "consistency" -> "consistency_score"
      [] category = "format" -> "format_score"
      [] category = "relationships" -> "relationship_score"

ReportKeys ==
    {"overall_score", "completeness_score", "consistency_score", "format_score",
     "relationship_score", "total_trials", "total_issues", "quality_level"}

IssueCount(category) == check_results[category].issue_count

\* C14: when the count of trial_basic_info rows is 0, the scorer returns
\* overall score 0, four category scores 0, total_trials 0 and level
\* "No Data", and no category check has run: none returned a result and the
\* issue list is untouched.
C14_EmptyCorpus ==
    (Scored /\ sample.total = 0 /\ sample.failure # TotalFailure) =>
        /\ ReportKeys \subseteq DOMAIN quality_assessment
        /\ quality_assessment.overall_score = 0
        /\ \A c \in Range(Categories) : quality_assessment[ScoreKey(c)] = 0
        /\ quality_assessment.total_trials = 0
        /\ quality_assessment.quality_level = "No Data"
        /\ check_results = NoResults
        /\ quality_issues = <<>>

\* C14 witness: the scorer has returned "No Data" for an empty corpus whose
\* store answered the count.
C14_Witness ==
    /\ Scored
    /\ sample.total = 0
    /\ sample.failure = NoFailure
    /\ "quality_level" \in DOMAIN quality_assessment
    /\ quality_assessment.quality_level = "No Data"

\* C15: with at least one trial, every category's issue count is the sum of
\* the counts its check returned, and its score is in [0, 100], is 100
\* exactly when the issue count is 0, is 0 whenever the issue count reaches
\* the number of trials, and is 100 - 100 * issue_count / total_trials
\* otherwise; the reported score is that value to the nearest hundredth.
C15_CategoryScore ==
    Ran =>
        \A c \in Range(Categories) :
            LET n == IssueCount(c)
                t == sample.total
                score == check_results[c].score
                reported == quality_assessment[ScoreKey(c)]
            IN  /\ n = SumValues(check_results[c].results, ChecksOf(c))
                /\ score.den = t
                /\ score.num >= 0
                /\ score.num <= 100 * t
                /\ (score.num = 100 * t) <=> (n = 0)
                /\ n >= t => score.num = 0
                /\ n < t => score.num = 100 * t - 100 * n
                /\ 2 * (reported * t - 100 * score.num) <= t
                /\ 2 * (100 * score.num - reported * t) <= t

\* C15 witness: a category whose two checks each count every trial, so that
\* its issue count is twice the number of trials, has score 0.
C15_Witness ==
    /\ Ran
    /\ \E c \in Range(Categories) :
          /\ ~check_results[c].raised
          /\ \A name \in DOMAIN check_results[c].results :
                check_results[c].results[name] <= sample.total
          /\ IssueCount(c) = 2 * sample.total
          /\ check_results[c].score.num = 0
          /\ quality_assessment[ScoreKey(c)] = 0

\* 10 * total_trials times the weighted sum of the four category scores
WeightedSum ==
    3 * check_results["completeness"].score.num
    + 3 * check_results["consistency"].score.num
    + 2 * check_results["format"].score.num
    + 2 * check_results["relationships"].score.num

NoIssues == \A c \in Range(Categories) : IssueCount(c) = 0

\* C16 (amended): with at least one trial the reported overall score is
\* 0.30, 0.30, 0.20 and 0.20 of the four category scores to the nearest
\* hundredth; it is in [0, 100], it is 100 when all four issue counts are 0,
\* and the unrounded sum is 100 only then.
C16_OverallScore ==
    Ran =>
        LET overall == quality_assessment.overall_score
            d == 10 * sample.total
        IN  /\ 2 * (overall * d - 100 * WeightedSum) <= d
            /\ 2 * (100 * WeightedSum - overall * d) <= d
            /\ overall >= 0
            /\ overall <= 10000
            /\ NoIssues => overall = 10000
            /\ (WeightedSum = 100 * d) <=> NoIssues

\* C16 (as claimed): the reported overall score is 100 only when all four
\* category issue counts are 0.
C16_HundredOnlyWhenClean ==
    (Ran /\ quality_assessment.overall_score = 10000) => NoIssues

\* C16 witness: 4001 trials with one format issue are reported at 100.0.
C16_Witness ==
    /\ Ran
    /\ sample.total = 4001
    /\ IssueCount("format") = 1
    /\ quality_assessment.overall_score = 10000
    /\ quality_assessment.format_score = 9998

\* 10 trials, 3 completeness issues, no other issue, every check ran
WorkedExample ==
    /\ Ran
    /\ sample.total = 10
    /\ IssueCount("completeness") = 3
    /\ \A c \in Range(Categories) \ {"completeness"} : IssueCount(c) = 0
    /\ \A c \in Range(Categories) : ~check_results[c].raised

\* C17 (amended): 10 trials with 3 completeness issues and no other issue
\* score completeness 70.0, overall 0.3 * 70 + 0.3 * 100 + 0.2 * 100
\* + 0.2 * 100 = 91.0, and level "Excellent".
C17_WorkedExample ==
    WorkedExample =>
        /\ quality_assessment.completeness_score = 7000
        /\ quality_assessment.overall_score = 9100
        /\ quality_assessment.quality_level = "Excellent"

\* C17 (as claimed): they score completeness 70.0, overall 21.0 and level
\* "Critical".
C17_AsStated ==
    WorkedExample =>
        /\ quality_assessment.completeness_score = 7000
        /\ quality_assessment.overall_score = 2100
        /\ quality_assessment.quality_level = "Critical"

\* C17 witness: the scorer has returned for that corpus, with the three
\* clean categories at 100.0.
C17_Witness ==
    /\ WorkedExample
    /\ quality_assessment.total_trials = 10
    /\ \A c \in Range(Categories) \ {"completeness"} :
          quality_assessment[ScoreKey(c)] = 10000

\* the band of a reported score, lower bounds inclusive
LevelOfReported(hundredths) ==
    IF hundredths >= 9000 THEN "Excellent"
    ELSE IF hundredths >= 8000 THEN "Good"
    ELSE IF hundredths >= 7000 THEN "Fair"
    ELSE IF hundredths >= 6000 THEN "Poor"
    ELSE "Critical"

\* C18 (as claimed): with at least one trial, the reported quality_level is
\* the band of the overall_score reported with it.
C18_LevelOfReportedScore ==
    Ran => quality_assessment.quality_level
               = LevelOfReported(quality_assessment.overall_score)

\* C19 (as claimed): a category whose check failed is not reported like a
\* clean one: its issue count is not 0 and its score is not 100.
C19_FailedCategoryNotClean ==
    Ran =>
        \A c \in Range(Categories) :
            check_results[c].raised =>
                /\ IssueCount(c) # 0
                /\ quality_assessment[ScoreKey(c)] # 10000

\* C20 (as claimed): every value check_data_quality_score returns has the
\* keys generate_quality_report reads.
C20_AssessmentKeys == Scored => ReportKeys \subseteq DOMAIN quality_assessment

-----------------------------------------------------------------------------
(* Inputs of the splitter *)

MaxPieces == 3

LowerMarker ==
    <<"e","x","c","l","u","s","i","o","n"," ","c","r","i","t","e","r","i","a">>

Pieces == {ExclusionMarker, InclusionLabel, LowerMarker, <<" ">>, <<"\n">>, <<"A">>, <<"B">>}

RECURSIVE Concats(_)
Concats(n) ==
    IF n = 0 THEN {<<>>}
    ELSE LET shorter == Concats(n - 1)
         IN  shorter \cup {b \o p : b \in shorter, p \in Pieces}

Blobs == Concats(MaxPieces)

CriteriaInputs ==
    {None, Dict(EmptyDict), Dict([textblock |-> None])}
        \cup {Str(b) : b \in Blobs}
        \cup {Dict([textblock |-> Str(b)]) : b \in Concats(2)}

NotSplit == [site |-> "none", raised |-> FALSE, parts |-> <<>>,
             inclusion |-> None, exclusion |-> None]

At(site, r) == [site |-> site, raised |-> r.raised, parts |-> r.parts,
                inclusion |-> r.inclusion, exclusion |-> r.exclusion]

SplitInit ==
    /\ criteria \in CriteriaInputs
    /\ split = NotSplit
    /\ db = EmptyStore
    /\ work = EmptyStore
    /\ pc = "idle"
    /\ cur = EmptyDict
    /\ stmts = <<>>
    /\ pos = 0
    /\ extracted_trials = <<>>
    /\ now = 0
    /\ txn_start = 0
    /\ err = "none"
    /\ ret = "none"
    /\ manager_connection = "open"
    /\ DateIdle
    /\ QualityIdle

\* insert_basic_info, lines 108-126
SplitInIngest ==
    /\ split.site = "none"
    /\ split' = At("insert_basic_info", insert_basic_info_criteria(criteria))
    /\ UNCHANGED <<dateVars, qualityVars, criteria, storeVars, manager_connection>>

\* search_and_extract_trials, lines 371-384
SplitInResponse ==
    /\ split.site = "none"
    /\ split' = At("search_and_extract_trials", response_criteria(criteria))
    /\ UNCHANGED <<dateVars, qualityVars, criteria, storeVars, manager_connection>>

\* get_trial_by_id, lines 433-446
SplitInGetTrial ==
    /\ split.site = "none"
    /\ split' = At("get_trial_by_id", response_criteria(criteria))
    /\ UNCHANGED <<dateVars, qualityVars, criteria, storeVars, manager_connection>>

SplitNext == SplitInIngest \/ SplitInResponse \/ SplitInGetTrial

SpecSplit == SplitInit /\ [][SplitNext]_vars

-----------------------------------------------------------------------------
(* Properties of the criteria splitting, checked under SpecSplit *)

\* the text the splitting works on, when the record supplies one
CriteriaText ==
    IF criteria.tag = "str" THEN criteria.s
    ELSE IF criteria.tag = "dict" /\ "textblock" \in DOMAIN criteria.d
            /\ criteria.d["textblock"].tag = "str"
    THEN criteria.d["textblock"].s
    ELSE <<>>

HasText ==
    \/ criteria.tag = "str"
    \/ criteria.tag = "dict" /\ "textblock" \in DOMAIN criteria.d
       /\ criteria.d["textblock"].tag = "str"

MarkerPositions(s) == {i \in 1..Len(s) : MatchAt(s, ExclusionMarker, i)}

FirstMarker(s) ==
    CHOOSE i \in MarkerPositions(s) : \A j \in MarkerPositions(s) : i <= j

\* t is s without its leading and trailing whitespace
IsTrimOf(t, s) ==
    IF t = <<>> THEN \A k \in 1..Len(s) : s[k] \in Whitespace
    ELSE /\ t[1] \notin Whitespace
         /\ t[Len(t)] \notin Whitespace
         /\ \E a \in 0..(Len(s) - Len(t)) :
               /\ SubSeq(s, a + 1, a + Len(t)) = t
               /\ \A k \in 1..a : s[k] \in Whitespace
               /\ \A k \in (a + Len(t) + 1)..Len(s) : s[k] \in Whitespace

BeforeFirstMarker(s) == SubSeq(s, 1, FirstMarker(s) - 1)

AfterFirstMarker(s) == SubSeq(s, FirstMarker(s) + Len(ExclusionMarker), Len(s))

\* C8: on every code path, a text holding the marker one or more times is cut
\* at the first occurrence only: exactly two segments, the exclusion text is
\* the trimmed text after the first occurrence (later occurrences included),
\* and the inclusion text is what the text before the first occurrence alone
\* would give.
C8_FirstOccurrenceOnly ==
    (split.site # "none" /\ HasText /\ MarkerPositions(CriteriaText) # {}) =>
        /\ ~split.raised
        /\ Len(split.parts) = 2
        /\ split.parts[1] = BeforeFirstMarker(CriteriaText)
        /\ split.parts[2] = AfterFirstMarker(CriteriaText)
        /\ split.exclusion.tag = "str"
        /\ IsTrimOf(split.exclusion.s, AfterFirstMarker(CriteriaText))
        /\ split.inclusion =
              response_criteria(
                  Str(BeforeFirstMarker(CriteriaText) \o ExclusionMarker)).inclusion

\* C8 witness: a text with two occurrences was split and the exclusion text
\* still holds the second one.
C8_Witness ==
    /\ split.site = "insert_basic_info"
    /\ HasText
    /\ Cardinality(MarkerPositions(CriteriaText)) >= 2
    /\ split.exclusion.tag = "str"
    /\ str_contains(split.exclusion.s, ExclusionMarker)

\* the left segment with only a leading label removed, trimmed
LeadingLabelRemoved(left) ==
    LET t == str_strip(left)
    IN  IF MatchAt(t, InclusionLabel, 1)
        THEN str_strip(SubSeq(t, Len(InclusionLabel) + 1, Len(t)))
        ELSE t

\* C9 (as claimed): with the marker present, the inclusion text is the left
\* segment with only a leading "Inclusion Criteria:" removed and trimmed, so a
\* label elsewhere in the left segment survives.
C9_OnlyLeadingLabelRemoved ==
    (split.site # "none" /\ HasText /\ MarkerPositions(CriteriaText) # {}) =>
        split.inclusion = Str(LeadingLabelRemoved(BeforeFirstMarker(CriteriaText)))

\* C10 (as claimed): in insert_basic_info, a non-empty text without the marker
\* gives inclusion = the trimmed text and exclusion absent; an absent blob
\* gives both absent and the function goes on to the write.
C10_NoMarker ==
    (split.site = "insert_basic_info") =>
        /\ (criteria.tag = "str" /\ criteria.s # <<>>
            /\ MarkerPositions(criteria.s) = {}) =>
               /\ ~split.raised
               /\ split.inclusion.tag = "str"
               /\ IsTrimOf(split.inclusion.s, criteria.s)
               /\ split.exclusion = None
        /\ (criteria = None) =>
               /\ ~split.raised
               /\ split.inclusion = None
               /\ split.exclusion = None

\* the first half of C10 alone (non-empty text without the marker)
C10_NonEmptyNoMarker ==
    (split.site = "insert_basic_info" /\ criteria.tag = "str"
     /\ criteria.s # <<>> /\ MarkerPositions(criteria.s) = {}) =>
        /\ ~split.raised
        /\ split.inclusion.tag = "str"
        /\ IsTrimOf(split.inclusion.s, criteria.s)
        /\ split.exclusion = None

-----------------------------------------------------------------------------
(* DataQualityChecker: the queries of the category checks over the tables   *)
(* of a store.  trial_basic_info, trial_descriptions and trial_eligibility  *)
(* are sets of rows, the other tables bags of rows; a comparison with NULL  *)
(* is never true.                                                           *)

\* x IS NULL OR x = ''
Missing(v) == v = None \/ v = Str(<<>>)

\* a > b, for two dates that are not NULL
DateAfter(a, b) ==
    \/ a.y > b.y
    \/ a.y = b.y /\ a.m > b.m
    \/ a.y = b.y /\ a.m = b.m /\ a.d > b.d

\* a > b AND a IS NOT NULL AND b IS NOT NULL
LaterThan(a, b) == a # None /\ b # None /\ DateAfter(a, b)

\* tbi LEFT JOIN t ON tbi.nct_id = t.nct_id WHERE t.nct_id IS NULL: the rows
\* of `left` that no row of the table t joins
Unjoined(left, ids) == {r \in left : r.nct_id = None \/ r.nct_id \notin ids}

\* the nct_id values of a table that a join can match
JoinIds(rows) == {r.nct_id : r \in rows} \ {None}

\* COUNT(*) over the rows of the bag `rows` that are in `chosen`
CountRows(rows, chosen) == BagCardinality([r \in chosen |-> rows[r]])

Letters ==
    {"a", "b", "c", "d", "e", "f", "g", "h", "i", "j", "k", "l", "m", "n", "o",
     "p", "q", "r", "s", "t", "u", "v", "w", "x", "y", "z",
     "A", "B", "C", "D", "E", "F", "G", "H", "I", "J", "K", "L", "M", "N", "O",
     "P", "Q", "R", "S", "T", "U", "V", "W", "X", "Y", "Z"}

\* the slip of asking for a prefix only: '^NCT[0-9]{8}'
NctFormatPrefixOnly(s) ==
    /\ Len(s) >= 11
    /\ s[1] = "N" /\ s[2] = "C" /\ s[3] = "T"
    /\ \A i \in 4..11 : s[i] \in Digits

\* s ~ '^NCT[0-9]{8}$'
NctFormat(s) ==
    /\ Len(s) = 11
    /\ s[1] = "N" /\ s[2] = "C" /\ s[3] = "T"
    /\ \A i \in 4..11 : s[i] \in Digits

\* s ~ '^[A-Za-z0-9._%+-]+@[A-Za-z0-9.-]+\.[A-Za-z]{2,}$'
EmailFormat(s) ==
    \E at \in 2..Len(s) :
        /\ s[at] = "@"
        /\ \A i \in 1..(at - 1) : s[i] \in Letters \cup Digits \cup {".", "_", "%", "+", "-"}
        /\ \E dot \in (at + 2)..(Len(s) - 2) :
              /\ s[dot] = "."
              /\ \A i \in (at + 1)..(dot - 1) : s[i] \in Letters \cup Digits \cup {".", "-"}
              /\ \A i \in (dot + 1)..Len(s) : s[i] \in Letters

\* s ~ '^[+]?[0-9\s\-\(\)]{10,}$'
PhoneFormat(s) ==
    LET first == IF Len(s) > 0 /\ s[1] = "+" THEN 2 ELSE 1
    IN  /\ Len(s) - first + 1 >= 10
        /\ \A i \in first..Len(s) : s[i] \in Digits \cup Whitespace \cup {"-", "(", ")"}

\* CURRENT_DATE on the day the checks run
CurrentDate == Date(2026, 1, 1)

\* d < '1900-01-01' or d > CURRENT_DATE + INTERVAL '10 years', d not NULL
DateOutOfRange(d) ==
    /\ d # None
    /\ \/ DateAfter(Date(1900, 1, 1), d)
       \/ DateAfter(d, Date(CurrentDate.y + 10, CurrentDate.m, CurrentDate.d))

\* the rows the query of invalid_dates counts, lines 76-80
InvalidDateRows(store) ==
    {r \in store.basic :
        \/ LaterThan(r.cols.start_date, r.cols.completion_date)
        \/ LaterThan(r.cols.start_date, r.cols.primary_completion_date)}

\* the slip of flagging the upper limit itself: enrollment_count >= 1000000
InvalidEnrollmentRowsInclusive(store) ==
    {r \in store.basic :
        /\ r.cols.enrollment_count # None
        /\ \/ r.cols.enrollment_count.n < 0
           \/ r.cols.enrollment_count.n >= 1000000}

\* the rows the query of invalid_enrollment counts, lines 81-84
InvalidEnrollmentRows(store) ==
    {r \in store.basic :
        /\ r.cols.enrollment_count # None
        /\ \/ r.cols.enrollment_count.n < 0
           \/ r.cols.enrollment_count.n > 1000000}

\* the slip of selecting the rows instead of the groups: one result row per
\* row of a repeated nct_id
DuplicateRowsUngrouped(store) ==
    {[nct_id |-> r.nct_id, count |-> Cardinality(RowsOf(store, "basic", r.nct_id)),
      row |-> r] :
        r \in {x \in store.basic : Cardinality(RowsOf(store, "basic", x.nct_id)) > 1}}

\* the rows the query of duplicate_nct_ids returns, lines 85-90:
\* GROUP BY nct_id HAVING COUNT(*) > 1 (the NULLs form one group)
DuplicateRows(store) ==
    {[nct_id |-> id, count |-> Cardinality(RowsOf(store, "basic", id))] :
        id \in {x \in {r.nct_id : r \in store.basic} :
                   Cardinality(RowsOf(store, "basic", x)) > 1}}

\* the rows the query of invalid_nct_format returns, lines 127-130
InvalidNctFormatRows(store) ==
    {r \in store.basic : r.nct_id # None /\ ~NctFormat(r.nct_id.s)}

\* the column a completeness check looks at, lines 45-50
RequiredColumn(check) ==
    CASE check = "missing_brief_title" -> "brief_title"
      [] check = "missing_official_title" -> "official_title"
      [] check = "missing_status" -> "status"
      [] check = "missing_study_type" -> "study_type"
      [] check = "missing_organization" -> "organization_name"

\* the child table a relationship check joins, lines 173-192
JoinedTable(check) ==
    CASE check = "missing_conditions" -> "conditions"
      [] check = "missing_keywords" -> "keywords"
      [] check = "missing_outcomes" -> "outcomes"
      [] check = "missing_locations" -> "locations"

\* what the query of a check finds in the tables of `store`: the count it
\* returns, or the number of rows it returns
CheckCount(store, check) ==
    CASE check = "missing_nct_id" ->
            Cardinality({r \in store.basic : Missing(r.nct_id)})
      [] check \in {"missing_brief_title", "missing_official_title", "missing_status",
                    "missing_study_type", "missing_organization"} ->
            Cardinality({r \in store.basic : Missing(r.cols[RequiredColumn(check)])})
      [] check = "missing_descriptions" ->
            Cardinality(Unjoined(store.basic, JoinIds(store.desc)))
      [] check = "missing_eligibility" ->
            Cardinality(Unjoined(store.basic, JoinIds(store.elig)))
      [] check = "invalid_dates" -> Cardinality(InvalidDateRows(store))
      [] check = "invalid_enrollment" -> Cardinality(InvalidEnrollmentRows(store))
      [] check = "duplicate_nct_ids" -> Cardinality(DuplicateRows(store))
      [] check = "orphaned_records" ->
            Cardinality(Unjoined(store.desc, JoinIds(store.basic)))
      [] check = "invalid_nct_format" -> Cardinality(InvalidNctFormatRows(store))
      [] check = "invalid_email_format" ->
            CountRows(store.locations,
                      {r \in BagToSet(store.locations) :
                          /\ r.cols.facility_contact_email # None
                          /\ ~EmailFormat(r.cols.facility_contact_email.s)})
      [] check = "invalid_phone_format" ->
            CountRows(store.locations,
                      {r \in BagToSet(store.locations) :
                          /\ r.cols.facility_contact_phone # None
                          /\ ~PhoneFormat(r.cols.facility_contact_phone.s)})
      [] check = "invalid_date_format" ->
            Cardinality({r \in store.basic :
                            \/ DateOutOfRange(r.cols.start_date)
                            \/ DateOutOfRange(r.cols.completion_date)})
      [] check \in {"missing_conditions", "missing_keywords", "missing_outcomes",
                    "missing_locations"} ->
            Cardinality(Unjoined(store.basic,
                                 JoinIds(BagToSet(store[JoinedTable(check)]))))

\* SELECT COUNT(*) as total FROM trial_basic_info, line 216
TotalTrials(store) == Cardinality(store.basic)

\* the counts the queries of one category find
CategoryCounts(store, category) ==
    [name \in Range(ChecksOf(category)) |-> CheckCount(store, name)]

\* what every query of the checker finds in `store`, the store failing as
\* `failure` says
Observe(store, failure) ==
    [total |-> TotalTrials(store),
     counts |-> [c \in Range(Categories) |-> CategoryCounts(store, c)],
     failure |-> failure]

-----------------------------------------------------------------------------
(* Corpora the checker is run on *)

\* a trial_basic_info row without an issue, but for the columns in `changes`
CleanValues ==
    [brief_title |-> Txt("b"), official_title |-> Txt("B"), status |-> Txt("R"),
     study_type |-> Txt("T"), organization_name |-> Txt("o"),
     enrollment_count |-> PyInt(100), start_date |-> Date(2020, 1, 1),
     completion_date |-> Date(2021, 1, 1),
     primary_completion_date |-> Date(2020, 6, 1)]

BasicRow(nct_id, changes, t) == NewRow("basic", nct_id, changes @@ CleanValues, t)

\* identifiers that are not NCT and eight digits: too short, lowercase, one
\* digit too many, empty
ShortId == Str(<<"N", "C", "T", "1", "2", "3">>)

LowerId == Str(<<"n", "c", "t", "0", "0", "0", "0", "0", "0", "0", "2">>)

LongId == Str(<<"N", "C", "T", "0", "0", "0", "0", "0", "0", "0", "1", "2">>)

\* rows that differ in identifier, dates and enrollment count
RowPool ==
    {BasicRow(NCT("1"), <<>>, 1),
     \* start after completion and after primary completion
     BasicRow(ShortId, [start_date |-> Date(2021, 1, 2)], 1),
     \* start after primary completion, no completion date
     BasicRow(LowerId, [start_date |-> Date(2020, 6, 2), completion_date |-> None], 1),
     \* no start date; a negative count
     BasicRow(LongId, [start_date |-> None, enrollment_count |-> PyInt(0 - 1)], 1),
     \* start on the day of completion; one more than the limit
     BasicRow(NCT("2"), [start_date |-> Date(2021, 1, 1),
                         primary_completion_date |-> None,
                         enrollment_count |-> PyInt(1000001)], 1),
     \* the limit itself
     BasicRow(NCT("3"), [enrollment_count |-> PyInt(1000000)], 1),
     \* a late start with nothing to compare it to; a count of 0
     BasicRow(NCT("4"), [start_date |-> Date(2030, 1, 1), completion_date |-> None,
                         primary_completion_date |-> None,
                         enrollment_count |-> PyInt(0)], 1),
     \* no count, an empty official title, a start before 1900
     BasicRow(NCT("5"), [enrollment_count |-> None, official_title |-> Str(<<>>),
                         start_date |-> Date(1899, 12, 31)], 1),
     \* no identifier, an empty identifier
     BasicRow(None, <<>>, 1),
     BasicRow(Str(<<>>), <<>>, 1)}

\* rows of a trial in the other tables: a description, an eligibility row
\* and one row in every child table
RelatedRows(nct_id) ==
    [desc |-> {NewRow("desc", nct_id, [brief_summary |-> Txt("s")], 0)},
     elig |-> {NewRow("elig", nct_id, [inclusion_criteria |-> Txt("i")], 0)},
     arms |-> SetToBag({NewRow("arms", nct_id, [arm_group_label |-> Txt("x")], 0)}),
     outcomes |-> SetToBag({NewRow("outcomes", nct_id, [outcome_measure |-> Txt("m")], 0)}),
     locations |-> SetToBag({NewRow("locations", nct_id, [facility_name |-> Txt("f")], 0)}),
     conditions |-> SetToBag({NewRow("conditions", nct_id, [condition_name |-> Txt("c")], 0)}),
     keywords |-> SetToBag({NewRow("keywords", nct_id, [keyword |-> Txt("k")], 0)})]

\* the store holding `rows` in trial_basic_info and the related rows of the
\* identifiers in `related`
CorpusOf(rows, related) ==
    [table \in DOMAIN EmptyStore |->
        IF table = "basic" THEN rows
        ELSE IF table \in KeyedTables
        THEN UNION {RelatedRows(id)[table] : id \in related}
        ELSE SetToBag(UNION {BagToSet(RelatedRows(id)[table]) : id \in related})]

\* one identifier three times
TripleRows == {BasicRow(NCT("1"), <<>>, t) : t \in 1..3}

\* six identifiers twice each
SixPairs == {BasicRow(NCT(d), <<>>, t) : d \in {"1", "2", "3", "4", "5", "6"}, t \in 1..2}

\* six identifiers that are too short
SixShort ==
    {BasicRow(Str(<<"N", "C", "T", d>>), <<>>, 1) : d \in {"1", "2", "3", "4", "5", "6"}}

\* locations with contacts: a well-formed address and number, and others
ContactRows ==
    SetToBag({NewRow("locations", NCT("1"),
                     [facility_contact_email |-> Str(e), facility_contact_phone |-> Str(p)], 0) :
              e \in {<<"a", "@", "b", ".", "c", "o">>, <<"a", "@", "b", ".", "c">>,
                     <<"a", "b", ".", "c", "o">>},
              p \in {<<"+", "1", " ", "(", "5", "5", "5", ")", " ", "0", "1", "-", "2", "3">>,
                     <<"5", "5", "5", "-", "0", "1", "2">>}})

\* the stores the checker reads: up to two rows of the pool, with or without
\* related rows; repeated identifiers; a description without its trial;
\* locations with contacts
Corpora ==
    {CorpusOf(rows, related) :
        rows \in {x \in SUBSET RowPool : Cardinality(x) <= 2},
        related \in {{}, {NCT("1"), ShortId, NCT("2")}}}
    \cup {CorpusOf(TripleRows, {NCT("1")}),
          CorpusOf(TripleRows \cup {BasicRow(NCT("2"), <<>>, 1)}, {}),
          CorpusOf(TripleRows \cup {BasicRow(NCT("2"), <<>>, t) : t \in 1..2}, {NCT("2")}),
          CorpusOf({BasicRow(None, <<>>, t) : t \in 1..2}, {}),
          CorpusOf(SixPairs, {NCT("1")}),
          CorpusOf(SixShort, {}),
          CorpusOf({}, {NCT("1")}),
          [CorpusOf({BasicRow(NCT("1"), <<>>, 1)}, {NCT("1")})
              EXCEPT !.locations = ContactRows]}

-----------------------------------------------------------------------------
(* The methods of one DataQualityChecker, called in any order on a store    *)
(* that answers every query and that nobody writes to                       *)

\* methods called on one checker
MaxCalls == 2

CheckerInit ==
    /\ db \in Corpora
    /\ work = db
    /\ sample = Observe(db, NoFailure)
    /\ check_results = NoResults
    /\ quality_issues = <<>>
    /\ quality_assessment = NoAssessment
    /\ calls = 0
    /\ seen = <<>>
    /\ pc = "idle"
    /\ cur = EmptyDict
    /\ stmts = <<>>
    /\ pos = 0
    /\ extracted_trials = <<>>
    /\ now = 0
    /\ txn_start = 0
    /\ err = "none"
    /\ ret = "none"
    /\ manager_connection = "open"
    /\ criteria = None
    /\ split = [site |-> "none", raised |-> FALSE, parts |-> <<>>,
                inclusion |-> None, exclusion |-> None]
    /\ DateIdle

\* a category check called by itself: what it returns, and its lines at the
\* end of quality_issues
CallCategoryCheck(category) ==
    /\ sample # NoSample
    /\ calls < MaxCalls
    /\ calls' = calls + 1
    /\ LET r == CategoryCheck(category, sample.counts[category],
                              FailAt(category, sample.failure))
       IN  /\ check_results' = (category :> [raised |-> r.raised, results |-> r.results])
           /\ quality_issues' = quality_issues \o r.issues
    /\ UNCHANGED <<sample, quality_assessment, seen, criteria, split, dateVars,
                   storeVars, manager_connection>>

\* lines 39-68
check_data_completeness == CallCategoryCheck("completeness")

\* lines 70-119
check_data_consistency == CallCategoryCheck("consistency")

\* lines 121-165
check_data_format == CallCategoryCheck("format")

\* lines 167-208
check_data_relationships == CallCategoryCheck("relationships")

\* the issue list after the four category checks of lines 339-342
IssuesAfterChecks(s, issues) ==
    issues
    \o CategoryCheck("completeness", s.counts["completeness"], 0).issues
    \o CategoryCheck("consistency", s.counts["consistency"], 0).issues
    \o CategoryCheck("format", s.counts["format"], 0).issues
    \o CategoryCheck("relationships", s.counts["relationships"], 0).issues

\* lines 333-348: the four category checks, then check_data_quality_score,
\* which runs them again when there are trials
run_full_quality_check ==
    /\ sample # NoSample
    /\ sample.failure = NoFailure
    /\ calls < MaxCalls
    /\ calls' = calls + 1
    /\ LET r == QualityScore(sample, IssuesAfterChecks(sample, quality_issues))
       IN  /\ quality_assessment' = r.assessment
           /\ check_results' = r.checks
           /\ quality_issues' = r.issues
    /\ UNCHANGED <<sample, seen, criteria, split, dateVars, storeVars, manager_connection>>

\* lines 291-331: check_data_quality_score, then the report is built from
\* its value and from quality_issues
generate_quality_report ==
    /\ sample # NoSample
    /\ sample.failure = NoFailure
    /\ calls < MaxCalls
    /\ calls' = calls + 1
    /\ LET r == QualityScore(sample, quality_issues)
       IN  /\ quality_assessment' = r.assessment
           /\ check_results' = r.checks
           /\ quality_issues' = r.issues
    /\ UNCHANGED <<sample, seen, criteria, split, dateVars, storeVars, manager_connection>>

CheckerNext ==
    \/ check_data_completeness
    \/ check_data_consistency
    \/ check_data_format
    \/ check_data_relationships
    \/ run_full_quality_check
    \/ generate_quality_report
    \/ check_data_quality_score

SpecChecker == CheckerInit /\ [][CheckerNext]_vars

-----------------------------------------------------------------------------
(* Properties of the category checks, checked under SpecChecker *)

\* the check of a category has returned its counts
Returned(category) ==
    /\ category \in DOMAIN check_results
    /\ ~check_results[category].raised

\* the category was run by check_data_quality_score, which summed its counts
Summed(category) ==
    /\ Returned(category)
    /\ "issue_count" \in DOMAIN check_results[category]

CountOf(category, check) == check_results[category].results[check]

\* the rows of trial_basic_info that carry nct_id
Copies(store, nct_id) == Cardinality({r \in store.basic : r.nct_id = nct_id})

\* the nct_id values that more than one row carries
RepeatedIds(store) == {id \in {r.nct_id : r \in store.basic} : Copies(store, id) > 1}

\* C21: duplicate_nct_ids is the number of distinct nct_id values that occur
\* more than once in trial_basic_info; the query returns one entry per such
\* value, with the number of rows that carry it; the consistency issue count
\* grows by the number of values, not of rows. One identifier occurring
\* three times gives duplicate_nct_ids = 1, one entry of count 3, and 1 in
\* the issue count.
C21_DuplicateIds ==
    Returned("consistency") =>
        LET n == CountOf("consistency", "duplicate_nct_ids")
        IN  /\ n = Cardinality(RepeatedIds(db))
            /\ Cardinality(DuplicateRows(db)) = n
            /\ {d.nct_id : d \in DuplicateRows(db)} = RepeatedIds(db)
            /\ \A d \in DuplicateRows(db) : d.count = Copies(db, d.nct_id)
            /\ Summed("consistency") =>
                  IssueCount("consistency") =
                      n + CountOf("consistency", "invalid_dates")
                        + CountOf("consistency", "invalid_enrollment")
                        + CountOf("consistency", "orphaned_records")
            /\ db.basic = TripleRows =>
                  /\ n = 1
                  /\ DuplicateRows(db) = {[nct_id |-> NCT("1"), count |-> 3]}
                  /\ Summed("consistency") => IssueCount("consistency") = 1

\* C21 witness: the corpus with one identifier three times has been scored:
\* three trials, one consistency issue.
C21_Witness ==
    /\ db.basic = TripleRows
    /\ Summed("consistency")
    /\ CountOf("consistency", "duplicate_nct_ids") = 1
    /\ IssueCount("consistency") = 1
    /\ quality_assessment.total_trials = 3
    /\ quality_assessment.consistency_score = 6667

\* the example lines of a check in quality_issues (its headline apart)
ExampleLines(check) ==
    {i \in DOMAIN quality_issues :
        quality_issues[i].check = check /\ quality_issues[i].example > 0}

\* a new checker has run the check of this category once, and nothing else
RanOnce(category) == calls = 1 /\ DOMAIN check_results = {category}

\* C22 (as claimed): one run of a check that reports examples (the four
\* format checks and duplicate_nct_ids) appends at most 5 example lines.
C22_AtMostFiveExamples ==
    \A category \in {"consistency", "format"} :
        RanOnce(category) =>
            \A check \in Range(ChecksOf(category)) :
                Cardinality(ExampleLines(check)) <= 5

\* the same for the format checks alone
C22_AtMostFiveFormatExamples ==
    RanOnce("format") =>
        \A check \in Range(format_checks) : Cardinality(ExampleLines(check)) <= 5

\* what check_data_quality_score gives on a new DataQualityChecker over the
\* same query results
FirstScore == QualityScore(sample, <<>>)

\* C23 (as claimed): over an unchanged corpus, whatever methods were called
\* before on the same checker, check_data_quality_score returns the scores,
\* total_issues and quality_level of a first call, and the issue list is
\* that of a first call.
C23_Stateless ==
    Scored =>
        /\ quality_assessment = FirstScore.assessment
        /\ quality_issues = FirstScore.issues

\* the scores and the level by themselves do not depend on earlier calls
C23_ScoresRepeat ==
    (Scored /\ sample.total > 0) =>
        \A key \in ReportKeys \ {"total_issues"} :
            quality_assessment[key] = FirstScore.assessment[key]

\* a date as a number that orders like the calendar
DayNumber(d) == d.y * 10000 + d.m * 100 + d.d

\* the row gives no reason to doubt its dates: no start date, or every date
\* it can be compared to is not before it
DatesInOrder(r) ==
    \/ r.cols.start_date = None
    \/ \A c \in {"completion_date", "primary_completion_date"} :
          \/ r.cols[c] = None
          \/ DayNumber(r.cols.start_date) <= DayNumber(r.cols[c])

\* no enrollment count, or one from 0 to 1,000,000
EnrollmentInRange(r) ==
    \/ r.cols.enrollment_count = None
    \/ r.cols.enrollment_count.n \in 0..1000000

\* C24: invalid_dates is the number of trial_basic_info rows whose start
\* date is after a completion or primary completion date that is present,
\* each row counted once and none for an absent date; invalid_enrollment is
\* the number of rows whose enrollment count is below 0 or above 1,000,000
\* (0, 1,000,000 and an absent count are not flagged).
C24_ConsistencyCounts ==
    Returned("consistency") =>
        /\ CountOf("consistency", "invalid_dates")
              = Cardinality(db.basic) - Cardinality({r \in db.basic : DatesInOrder(r)})
        /\ CountOf("consistency", "invalid_enrollment")
              = Cardinality(db.basic)
                    - Cardinality({r \in db.basic : EnrollmentInRange(r)})

\* C24 witness: the consistency check ran over a row whose start is after
\* both of its completion dates and a row with a count of 1,000,000, and
\* found one invalid date and no invalid enrollment.
C24_Witness ==
    /\ Returned("consistency")
    /\ \E r \in db.basic :
          /\ LaterThan(r.cols.start_date, r.cols.completion_date)
          /\ LaterThan(r.cols.start_date, r.cols.primary_completion_date)
    /\ \E r \in db.basic : r.cols.enrollment_count = PyInt(1000000)
    /\ Cardinality(db.basic) = 2
    /\ CountOf("consistency", "invalid_dates") = 1
    /\ CountOf("consistency", "invalid_enrollment") = 0

\* the text is NCT and eight digits, nothing before and nothing after
NctAndEightDigits(s) ==
    /\ Len(s) = 3 + 8
    /\ SubSeq(s, 1, 3) = <<"N", "C", "T">>
    /\ Range(SubSeq(s, 4, Len(s))) \subseteq Digits

\* C25 (amended): invalid_nct_format is the number of trial_basic_info rows
\* that have an nct_id and whose nct_id is not NCT followed by exactly eight
\* digits: NCT123, a lowercase, an over-long and an empty identifier are
\* flagged, NCT00000001 is not, and neither is a row without nct_id.
C25_NctFormat ==
    Returned("format") =>
        /\ CountOf("format", "invalid_nct_format")
              = Cardinality({r \in db.basic :
                                r.nct_id # None /\ ~NctAndEightDigits(r.nct_id.s)})
        /\ CountOf("format", "invalid_nct_format")
              = Cardinality({r \in db.basic :
                                r.nct_id \in {ShortId, LowerId, LongId, Str(<<>>)}
                                             \cup {Str(<<"N", "C", "T", d>>) : d \in Digits}})
        /\ CountOf("format", "invalid_nct_format")
              = Cardinality(db.basic)
                    - Cardinality({r \in db.basic :
                                      r.nct_id \in {None} \cup {NCT(d) : d \in Digits}})

\* C25 (as claimed): invalid_nct_format is the number of trial_basic_info
\* rows whose nct_id is not NCT followed by exactly eight digits.
C25_EveryOtherIdFlagged ==
    Returned("format") =>
        CountOf("format", "invalid_nct_format")
            = Cardinality({r \in db.basic :
                              r.nct_id = None \/ ~NctAndEightDigits(r.nct_id.s)})

\* C25 witness: the format check ran over an over-long identifier and a row
\* without identifier, and flagged one row.
C25_Witness ==
    /\ Returned("format")
    /\ \E r \in db.basic : r.nct_id = LongId
    /\ \E r \in db.basic : r.nct_id = None
    /\ Cardinality(db.basic) = 2
    /\ CountOf("format", "invalid_nct_format") = 1

-----------------------------------------------------------------------------
(* The ingest of records that carry dates *)

\* the date texts of a statusModule: a month, a day before it, none
DateStrings ==
    {Str(<<"2", "0", "2", "1", "-", "0", "3">>),
     Str(<<"2", "0", "2", "0", "-", "0", "1", "-", "1", "5">>),
     None}

\* a record with the three dates of its statusModule and one arm, one
\* outcome and one location
RawDated(id, start, completion, primary) ==
    [identificationModule |-> [nctId |-> id, briefTitle |-> Txt("b")],
     statusModule |->
        [startDateStruct |-> [date |-> start],
         completionDateStruct |-> [date |-> completion],
         primaryCompletionDateStruct |-> [date |-> primary]],
     eligibilityModule |-> [eligibilityCriteria |-> Txt("A")],
     armsInterventionsModule |-> [armGroups |-> List(<<[label |-> Txt("x")]>>)],
     outcomesModule |-> [primaryOutcomes |-> List(<<[measure |-> Txt("m")]>>)],
     contactsLocationsModule |-> [locations |-> List(<<[facility |-> Txt("f")]>>)]]

DatedTrialInputs ==
    {RawDated(NCT("1"), start, completion, primary) :
        start \in DateStrings, completion \in DateStrings, primary \in DateStrings}

IngestDatesNext ==
    \/ search_and_extract_trials
    \/ \E trial \in DatedTrialInputs : NextTrial(trial)
    \/ insert_basic_info
    \/ insert_arms_interventions
    \/ insert_outcomes
    \/ insert_locations
    \/ IngestStatementFails
    \/ AppendResponse
    \/ IngestCommit
    \/ IngestCommitFails
    \/ IngestRollback

SpecIngestDates == Init /\ [][IngestDatesNext]_vars

\* C26 (as claimed): every committed trial_basic_info row has its start
\* date, when present, not after its completion date and not after its
\* primary completion date, when these are present.
C26_DatesInOrder == \A r \in db.basic : DatesInOrder(r)

-----------------------------------------------------------------------------
(* The scorer reading on its connection while insert_trial_data writes on  *)
(* another.  Both connections are opened with the server's default          *)
(* isolation level, READ COMMITTED: every statement reads the rows          *)
(* committed when it starts.  The scorer is a sequence of query steps, the  *)
(* count of trials and then the queries of each category; the queries of    *)
(* one category are taken as one step.                                      *)

\* the slip of a reader that sees the pending rows of other transactions
SnapshotReadUncommitted(committed, working) == working

\* the rows a statement of the checker's connection reads
Snapshot(committed, working) == committed

\* the store before the writer's call: empty, or one clean trial
SeedStore == CorpusOf({BasicRow(NCT("1"), <<>>, 0)}, {NCT("1")})

SeedStores == {EmptyStore, SeedStore}

\* the records the writer is called with: a new trial that starts after its
\* completion, and a trial of the seed store, now with a title only
LateStart ==
    [nct_id |-> NCT("2"), brief_title |-> Txt("b"),
     start_date |-> Date(2021, 3, 1), completion_date |-> Date(2020, 1, 15)]
        @@ BothTexts @@ FullEligibility @@ OneChildEach

TitleOnly ==
    [nct_id |-> NCT("1"), brief_title |-> Txt("b")]
        @@ SummaryOnly @@ InclusionOnly @@ OneChildEach

ConcurrentInputs == {LateStart, TitleOnly}

ConcurrentInit ==
    /\ db \in SeedStores
    /\ work = db
    /\ now = MaxClock - 1
    /\ txn_start = 0
    /\ pc = "idle"
    /\ cur = EmptyDict
    /\ stmts = <<>>
    /\ pos = 0
    /\ extracted_trials = <<>>
    /\ err = "none"
    /\ ret = "none"
    /\ manager_connection = "open"
    /\ criteria = None
    /\ split = [site |-> "none", raised |-> FALSE, parts |-> <<>>,
                inclusion |-> None, exclusion |-> None]
    /\ DateIdle
    /\ QualityIdle

\* one query step: the rows it read, and whether the writer had rows pending
Read(committed, working) ==
    [tables |-> Snapshot(committed, working), pending |-> working # committed]

\* the query results of a finished scorer: the count from its first step,
\* the counts of each category from the step of that category
SampleOfSteps(steps) ==
    [total |-> TotalTrials(steps[1].tables),
     counts |-> [c \in Range(Categories) |->
                    CategoryCounts(steps[1 + CategoryIndex(c)].tables, c)],
     failure |-> NoFailure]

\* what check_data_quality_score returns from the query results s
ScoreReturns(s) ==
    LET r == QualityScore(s, quality_issues)
    IN  /\ sample' = s
        /\ quality_assessment' = r.assessment
        /\ check_results' = r.checks
        /\ quality_issues' = r.issues
        /\ calls' = calls + 1

\* SELECT COUNT(*) as total FROM trial_basic_info (lines 216-217), and the
\* return of lines 219-230 when there is no trial
ScoreCountTrials ==
    /\ seen = <<>>
    /\ quality_assessment = NoAssessment
    /\ LET step == Read(db, work)
       IN  /\ seen' = <<step>>
           /\ IF TotalTrials(step.tables) = 0
              THEN ScoreReturns(Observe(step.tables, NoFailure))
              ELSE UNCHANGED <<sample, quality_assessment, check_results,
                               quality_issues, calls>>
    /\ UNCHANGED <<criteria, split, dateVars, storeVars, manager_connection>>

\* the queries of one category (lines 233, 238, 243, 248); after the last
\* category the scores are computed and returned
ScoreCategory(category) ==
    /\ quality_assessment = NoAssessment
    /\ Len(seen) = CategoryIndex(category)
    /\ LET steps == Append(seen, Read(db, work))
       IN  /\ seen' = steps
           /\ IF Len(steps) = 1 + Len(Categories)
              THEN ScoreReturns(SampleOfSteps(steps))
              ELSE UNCHANGED <<sample, quality_assessment, check_results,
                               quality_issues, calls>>
    /\ UNCHANGED <<criteria, split, dateVars, storeVars, manager_connection>>

ScoreCompleteness == ScoreCategory("completeness")

ScoreConsistency == ScoreCategory("consistency")

ScoreFormat == ScoreCategory("format")

ScoreRelationships == ScoreCategory("relationships")

ConcurrentNext ==
    \/ \E td \in ConcurrentInputs : insert_trial_data(td)
    \/ UpsertBasicInfo
    \/ UpsertDescription
    \/ UpsertEligibility
    \/ InsertArm
    \/ InsertOutcome
    \/ InsertLocation
    \/ InsertCondition
    \/ InsertKeyword
    \/ ManagerStatementFails
    \/ ManagerCommit
    \/ ManagerRollback
    \/ ScoreCountTrials
    \/ ScoreCompleteness
    \/ ScoreConsistency
    \/ ScoreFormat
    \/ ScoreRelationships

SpecConcurrent == ConcurrentInit /\ [][ConcurrentNext]_vars

-----------------------------------------------------------------------------
(* Properties of the concurrent run, checked under SpecConcurrent *)

\* the stores in which every call of insert_trial_data is there with all of
\* its rows or with none
WholeCalls ==
    SeedStores \cup
    {Applied(s, td, MaxClock) : s \in SeedStores, td \in ConcurrentInputs}

\* C27: whatever the writer is doing, each query step of the checker reads
\* a store that holds all the rows of a call of insert_trial_data, basic
\* row and child rows, or none of them.
C27_WholeCallsOnly == \A i \in DOMAIN seen : seen[i].tables \in WholeCalls

\* a step read while the writer had rows pending and saw none of them, and a
\* later step saw the rows of the call
C27_Witness ==
    \E i, j \in DOMAIN seen :
        /\ i < j
        /\ seen[i].pending
        /\ seen[i].tables \in SeedStores
        /\ seen[j].tables \notin SeedStores
        /\ seen[j].tables \in WholeCalls

\* C28 (as claimed): the counts of a finished assessment, total_trials and
\* the counts of the four categories, are those of one committed state of
\* the store.
C28_OneSnapshot ==
    quality_assessment # NoAssessment =>
        \E s \in WholeCalls : sample = Observe(s, NoFailure)

-----------------------------------------------------------------------------
(* A failing query and the category checks after it, checked under SpecScore *)

\* C29 (as claimed): when a query of one category raises, the checks of the
\* categories after it still run and return the counts of the store.
C29_LaterCategoriesRun ==
    Ran =>
        \A c, d \in Range(Categories) :
            (check_results[c].raised /\ CategoryIndex(c) < CategoryIndex(d)) =>
                /\ ~check_results[d].raised
                /\ check_results[d].results = sample.counts[d]

-----------------------------------------------------------------------------
(* EnhancedDataManager and its connection.  self.connection is None until  *)
(* connect() (line 21); disconnect() closes it and keeps the closed object  *)
(* (lines 33-37); the server or the network can end it at any time.  On a   *)
(* connection that is None, closed or lost, cursor() and rollback() raise.  *)

ConnectionInit ==
    /\ manager_connection = "none"
    /\ db = EmptyStore
    /\ work = EmptyStore
    /\ pc = "idle"
    /\ cur = EmptyDict
    /\ stmts = <<>>
    /\ pos = 0
    /\ extracted_trials = <<>>
    /\ now = 0
    /\ txn_start = 0
    /\ err = "none"
    /\ ret = "none"
    /\ criteria = None
    /\ split = [site |-> "none", raised |-> FALSE, parts |-> <<>>,
                inclusion |-> None, exclusion |-> None]
    /\ DateIdle
    /\ QualityIdle

\* what a method call on self.connection raises, the connection being c
ConnectionError(c) == IF c = "none" THEN "AttributeError" ELSE "InterfaceError"

\* connect(), lines 23-31
connect ==
    /\ pc = "idle"
    /\ manager_connection # "open"
    /\ manager_connection' = "open"
    /\ UNCHANGED <<criteria, split, dateVars, qualityVars, storeVars>>

\* disconnect(), lines 33-37
disconnect ==
    /\ pc = "idle"
    /\ manager_connection = "open"
    /\ manager_connection' = "closed"
    /\ UNCHANGED <<criteria, split, dateVars, qualityVars, storeVars>>

\* insert_trial_data(trial_data) on an open connection
insert_trial_data_connected(td) ==
    /\ manager_connection = "open"
    /\ insert_trial_data(td)

\* insert_trial_data(trial_data) without an open connection:
\* self.connection.cursor() of line 58 raises inside the try block
insert_trial_data_unconnected(td) ==
    /\ pc = "idle"
    /\ manager_connection # "open"
    /\ now < MaxClock
    /\ pc' = "insert_trial_data_except"
    /\ cur' = td
    /\ stmts' = <<>>
    /\ pos' = 0
    /\ now' = now + 1
    /\ err' = ConnectionError(manager_connection)
    /\ ret' = "none"
    /\ UNCHANGED <<nonStoreVars, db, work, extracted_trials, txn_start>>

\* a statement of the open transaction
ManagerStatement ==
    /\ manager_connection = "open"
    /\ \/ UpsertBasicInfo
       \/ UpsertDescription
       \/ UpsertEligibility
       \/ InsertArm
       \/ InsertOutcome
       \/ InsertLocation
       \/ InsertCondition
       \/ InsertKeyword

\* the connection is lost under the next statement or the commit: the call
\* raises OperationalError and the server discards the transaction
ManagerConnectionLost ==
    /\ pc = "insert_trial_data"
    /\ manager_connection = "open"
    /\ manager_connection' = "lost"
    /\ pc' = "insert_trial_data_except"
    /\ err' = "OperationalError"
    /\ work' = db
    /\ UNCHANGED <<criteria, split, dateVars, qualityVars, db, cur, stmts, pos,
                   extracted_trials, now, txn_start, ret>>

\* except (lines 241-244) on an open connection: rollback, return False
ManagerExceptConnected ==
    /\ manager_connection = "open"
    /\ ManagerRollback

\* except (lines 241-244) without an open connection:
\* self.connection.rollback() of line 243 raises, and so does the call
ManagerRollbackRaises ==
    /\ pc = "insert_trial_data_except"
    /\ manager_connection # "open"
    /\ pc' = "idle"
    /\ ret' = "raised"
    /\ err' = ConnectionError(manager_connection)
    /\ cur' = EmptyDict
    /\ stmts' = <<>>
    /\ UNCHANGED <<nonStoreVars, db, work, pos, extracted_trials, now, txn_start>>

ConnectionNext ==
    \/ connect
    \/ disconnect
    \/ \E td \in TrialDataInputs : insert_trial_data_connected(td)
    \/ \E td \in TrialDataInputs : insert_trial_data_unconnected(td)
    \/ ManagerStatement
    \/ ManagerStatementFails
    \/ ManagerConnectionLost
    \/ ManagerCommit
    \/ ManagerExceptConnected
    \/ ManagerRollbackRaises

SpecConnection == ConnectionInit /\ [][ConnectionNext]_vars

\* C30 (as claimed): a call of insert_trial_data never raises: it ends by
\* returning True with its writes committed, or by returning False with the
\* transaction rolled back.
C30_TrueOrFalse ==
    [][(pc # "idle" /\ pc' = "idle") =>
          \/ ret' = "True" /\ db' = work
          \/ ret' = "False" /\ db' = db /\ work' = db]_vars

====
